---- MODULE Spec2Model ----
(***************************************************************************)
(* A model of gpkg_to_raster/gkpg_to_raster.py: the command-line entry     *)
(* point, the two batch converters and create_raster_from_layer; of        *)
(* download/download_global_canopy_data.py; of                             *)
(* geoserver_tests/bulk_upload_rasters.py; of csv_to_shp/main.py; and of   *)
(* combine_csv/main.py.                                                    *)
(* Each script has its own variables and its own specification.            *)
(*                                                                         *)
(* Coordinates and the resolution are integers of one common fixed-point   *)
(* unit, so int((max - min) / resolution) is an integer division that      *)
(* truncates toward zero.  A missing value (NaN) is the empty tuple and a  *)
(* present value v is <<v>>.  One unit is the default resolution, 0.01.    *)
(***************************************************************************)
EXTENDS Integers, Sequences, FiniteSets, TLC

VARIABLES
    pc,             \* position of the script
    input_exists,   \* what os.path.exists said of the input path, or None
    args,           \* the parsed command line (no_year_split, exclude, resolution)
    gdf,            \* the loaded GeoDataFrame, or None
    years,          \* convert_gpkg_to_rasters_by_year: years
    columns,        \* disaster_columns / numeric_columns: the columns to convert
    total_rasters,  \* convert_gpkg_to_rasters_by_year: total_rasters
    yearIdx,        \* index of the year of the outer loop
    colIdx,         \* index of the column of the inner loop
    gdf_year,       \* the GeoDataFrame handed to create_raster_from_layer
    out_shape,      \* create_raster_from_layer: (height, width) as last computed, or None
    raster,         \* the raster grid held by create_raster_from_layer, or None
    dirs,           \* directories made by the run
    files,          \* raster files written by the run, as <<directory, column>>
    attempted,      \* the calls of create_raster_from_layer, in order
    errors,         \* the calls that ended in its except branch, with the exception
    uncaught,       \* the exception that ended the run, or "none"
    exitCode,       \* exit status of the process, or None while it runs
    \* download_global_canopy_data.py
    dl_pc,          \* position of the downloader
    runs,           \* the number of runs of the downloader begun so far
    tile,           \* index of the file name of the loops
    disk,           \* OUTPUT_FOLDER: for each file name, None or <<chunks written>>
    visited,        \* the file names this run came to, and what it did with each
    \* bulk_upload_rasters.py
    up_pc,          \* position of the uploader
    listing,        \* os.listdir(rasters_folder)
    folderIdx,      \* index of year_folder in it
    up_year,        \* main: year
    file_list,      \* os.listdir(year_path)
    fileIdx,        \* index of filename in it
    calls,          \* the calls sent to GeoServer, in order
    successful_uploads,
    failed_uploads,
    \* csv_to_shp/main.py
    join_pc,        \* position of csv_to_shp
    df,             \* main: df, the table of the CSV file, or None
    shp,            \* main: shp, the table of the shapefile, or None
    prompts,        \* the prompts shown, each with the answer typed
    result_shp,     \* main: result_shp, or None
    idx,            \* index of the row of df.iterrows()
    output_file,    \* the shapefile written, or None
    join_uncaught,  \* the exception that ended csv_to_shp, or "none"
    \* combine_csv/main.py
    cb_pc,          \* position of combine_csv_files
    csv_files,      \* combine_csv_files: csv_files, each a name and what it holds
    cb_idx,         \* index of csv_file in it
    yearly_data,    \* combine_csv_files: yearly_data, as (year, table) in order of insertion
    processed,      \* the files the loop has passed, and what became of each
    combined_df     \* the table written to output_file, or None

gpkg_vars == <<pc, input_exists, args, gdf, years, columns, total_rasters, yearIdx, colIdx,
               gdf_year, out_shape, raster, dirs, files, attempted, errors, uncaught,
               exitCode>>
download_vars == <<dl_pc, runs, tile, disk, visited>>
upload_vars == <<up_pc, listing, folderIdx, up_year, file_list, fileIdx, calls,
                 successful_uploads, failed_uploads>>

join_vars == <<join_pc, df, shp, prompts, result_shp, idx, output_file, join_uncaught>>
combine_vars == <<cb_pc, csv_files, cb_idx, yearly_data, processed, combined_df>>

vars == <<gpkg_vars, download_vars, upload_vars, join_vars, combine_vars>>

----------------------------------------------------------------------------
(* Bounds of the model *)

MaxFeatures == 2
MaxRes == 2
\* the downloader: file names followed, chunks of a response body, runs
MaxTiles == 3
MaxChunks == 1
MaxRuns == 2
\* the uploader: entries of the rasters folder, and of a year folder
MaxFolders == 2
MaxFiles == 1
\* csv_to_shp: rows of the CSV file, records of the shapefile
MaxCsvRows == 2
MaxShpRows == 2
\* combine_csv: files of the csvs folder
MaxCsvFiles == 3

----------------------------------------------------------------------------
(* Values *)

\* None is the empty tuple and any other value x is <<x>>
None == <<>>
NaN == <<>>

IsNaN(v) == v = NaN

\* geometries: boxes [x0, x1] x [y0, y1]; a point has x0 = x1 and y0 = y1
UnitBox == [x0 |-> 0, y0 |-> 0, x1 |-> 1, y1 |-> 1]
FarBox  == [x0 |-> 2, y0 |-> 0, x1 |-> 3, y1 |-> 1]
Point   == [x0 |-> 0, y0 |-> 1, x1 |-> 0, y1 |-> 1]

Geometries == {UnitBox, FarBox, Point}
YearValues == {<<2001>>, <<2002>>, NaN}
AttrRows == { [Num_Flood |-> <<5>>, Num_Forest_Fire |-> NaN],
              [Num_Flood |-> <<9>>, Num_Forest_Fire |-> <<7>>] }

ColumnsWithYear == <<"Year", "Num_Flood", "Num_Forest_Fire", "geometry">>
ColumnsNoYear   == <<"Num_Flood", "Num_Forest_Fire", "geometry">>

\* the attributes a feature of a geometry can have: a box any of the rows, a
\* point the first of them
AttrRowsOf(g) == IF g = Point THEN { a \in AttrRows : a.Num_Flood = <<5>> } ELSE AttrRows

FeaturesWithYear ==
    UNION { { [geometry |-> g, Year |-> y, Num_Flood |-> a.Num_Flood,
               Num_Forest_Fire |-> a.Num_Forest_Fire] :
                y \in YearValues, a \in AttrRowsOf(g) } : g \in Geometries }

FeaturesNoYear ==
    UNION { { [geometry |-> g, Num_Flood |-> a.Num_Flood,
               Num_Forest_Fire |-> a.Num_Forest_Fire] :
                a \in AttrRowsOf(g) } : g \in Geometries }

SeqsUpTo(S, n) == UNION { [1..k -> S] : k \in 0..n }

\* features that differ in their year only
FeaturesOfOneShape ==
    { f \in FeaturesWithYear : f.geometry = UnitBox /\ f.Num_Flood = <<5>> }

\* the feature collections gpd.read_file can return: up to MaxFeatures
\* features of any kind, or one feature more when they differ in the year only
GeoDataFrames ==
    { [columns |-> ColumnsWithYear, rows |-> r] : r \in SeqsUpTo(FeaturesWithYear, MaxFeatures) }
    \cup
    { [columns |-> ColumnsNoYear, rows |-> r] : r \in SeqsUpTo(FeaturesNoYear, MaxFeatures) }
    \cup
    { [columns |-> ColumnsWithYear, rows |-> r] : r \in [1..(MaxFeatures + 1) -> FeaturesOfOneShape] }

\* resolution=0.01, the default of -r and of the converters, in model units
DefaultResolution == 1

\* the values -r can take: type=float accepts zero too
Resolutions == 0 .. MaxRes
\* the values -e can take: its default, and a disaster column
ExcludeLists == { {"geometry", "Year"}, {"Num_Flood"} }

Range(s) == { s[i] : i \in DOMAIN s }

----------------------------------------------------------------------------
(* Helpers of pandas and Python *)

\* a == b of two floats: NaN equals nothing
PyEq(a, b) == ~IsNaN(a) /\ ~IsNaN(b) /\ a = b

\* a < b of two floats: every comparison with NaN is False
PyLt(a, b) == ~IsNaN(a) /\ ~IsNaN(b) /\ a[1] < b[1]

\* Series.unique(): the distinct values in order of first appearance, all NaN as one
RECURSIVE unique(_)
unique(s) ==
    IF s = <<>> THEN <<>>
    ELSE LET init == unique(SubSeq(s, 1, Len(s) - 1))
             x == s[Len(s)]
         IN IF x \in Range(init) THEN init ELSE Append(init, x)

Reverse(s) == [i \in 1..Len(s) |-> s[Len(s) + 1 - i]]

\* listsort's count_run: the length of the run that starts the list, and
\* whether it is strictly descending
RECURSIVE RunEnd(_, _, _)
RunEnd(s, i, desc) ==
    IF i > Len(s) THEN i - 1
    ELSE IF PyLt(s[i], s[i - 1]) = desc THEN RunEnd(s, i + 1, desc)
    ELSE i - 1

\* listsort's binarysort: the place of pivot in the sorted prefix s[lo..hi-1]
RECURSIVE BinaryPlace(_, _, _, _)
BinaryPlace(s, pivot, l, r) ==
    IF l >= r THEN l
    ELSE LET p == l + ((r - l) \div 2)
         IN IF PyLt(pivot, s[p]) THEN BinaryPlace(s, pivot, l, p)
            ELSE BinaryPlace(s, pivot, p + 1, r)

InsertAt(s, k, x) == SubSeq(s, 1, k - 1) \o <<x>> \o SubSeq(s, k, Len(s))

RECURSIVE BinarySort(_, _)
BinarySort(s, start) ==
    IF start > Len(s) THEN s
    ELSE LET pivot == s[start]
             k == BinaryPlace(s, pivot, 1, start)
             moved == InsertAt(SubSeq(s, 1, start - 1), k, pivot)
                        \o SubSeq(s, start + 1, Len(s))
         IN BinarySort(moved, start + 1)

\* sorted(list) of a list shorter than 64: the first run is found (and
\* reversed if descending), the rest is inserted into it
sorted(s) ==
    IF Len(s) < 2 THEN s
    ELSE LET desc == PyLt(s[2], s[1])
             n == RunEnd(s, 3, desc)
             run == IF desc THEN Reverse(SubSeq(s, 1, n)) ELSE SubSeq(s, 1, n)
         IN BinarySort(run \o SubSeq(s, n + 1, Len(s)), n + 1)

----------------------------------------------------------------------------
(* create_raster_from_layer *)

Min(S) == CHOOSE x \in S : \A y \in S : x <= y
Max(S) == CHOOSE x \in S : \A y \in S : x >= y
Abs(n) == IF n < 0 THEN 0 - n ELSE n

\* int(n / d) for d # 0: the quotient truncated toward zero
PyInt(n, d) ==
    IF (n >= 0) = (d > 0) THEN Abs(n) \div Abs(d)
    ELSE 0 - (Abs(n) \div Abs(d))

\* gdf.total_bounds of a non-empty frame
total_bounds(rows) ==
    [minx |-> Min({ rows[i].geometry.x0 : i \in DOMAIN rows }),
     miny |-> Min({ rows[i].geometry.y0 : i \in DOMAIN rows }),
     maxx |-> Max({ rows[i].geometry.x1 : i \in DOMAIN rows }),
     maxy |-> Max({ rows[i].geometry.y1 : i \in DOMAIN rows })]

\* width and height of the grid
GridWidthCeil(bounds, resolution) ==
    0 - ((0 - (bounds.maxx - bounds.minx)) \div resolution)

GridWidth(bounds, resolution) == PyInt(bounds.maxx - bounds.minx, resolution)

GridHeightCeil(bounds, resolution) ==
    0 - ((0 - (bounds.maxy - bounds.miny)) \div resolution)

GridHeight(bounds, resolution) == PyInt(bounds.maxy - bounds.miny, resolution)

\* rasterio.transform.from_bounds: the pixel sizes are xext / width and
\* yext / height, kept as the two integers of each fraction
from_bounds(minx, miny, maxx, maxy, width, height) ==
    [west |-> minx, north |-> maxy, xext |-> maxx - minx, yext |-> maxy - miny,
     width |-> width, height |-> height]

\* Series.fillna(0)
fillnaNoData(v) == IF IsNaN(v) THEN <<0 - 1>> ELSE v

fillna(v) == IF IsNaN(v) THEN <<0>> ELSE v

IsPoint(g) == g.x0 = g.x1 /\ g.y0 = g.y1

\* the cells a geometry burns: a point burns the cell that holds it, a polygon
\* the cells whose centre lies inside it (all_touched is left False)
Covers(g, cell, t) ==
    LET r == cell[1]
        c == cell[2]
    IN IF IsPoint(g)
       THEN /\ ((g.x0 - t.west) * t.width) \div t.xext = c - 1
            /\ ((t.north - g.y0) * t.height) \div t.yext = r - 1
       ELSE /\ 2 * t.width * (g.x0 - t.west) < (2 * c - 1) * t.xext
            /\ (2 * c - 1) * t.xext < 2 * t.width * (g.x1 - t.west)
            /\ 2 * t.height * (t.north - g.y1) < (2 * r - 1) * t.yext
            /\ (2 * r - 1) * t.yext < 2 * t.height * (t.north - g.y0)

\* one (geometry, value) shape burnt into the grid: it replaces what is there
BurnFirstWins(out, shape, t) ==
    [cell \in DOMAIN out |->
        IF Covers(shape[1], cell, t) /\ out[cell] = 0 THEN shape[2] ELSE out[cell]]

Burn(out, shape, t) ==
    [cell \in DOMAIN out |->
        IF Covers(shape[1], cell, t) THEN shape[2] ELSE out[cell]]

RECURSIVE BurnAll(_, _, _, _)
BurnAll(shapes, i, t, out) ==
    IF i > Len(shapes) THEN out
    ELSE BurnAll(shapes, i + 1, t, Burn(out, shapes[i], t))

\* rasterio.features.rasterize(shapes, out_shape, transform, fill=0): the grid
\* starts at the fill value and the shapes are burnt in the order given
rasterize(shapes, height, width, t) ==
    BurnAll(shapes, 1, t, [cell \in (1..height) \X (1..width) |-> 0])

\* rasterize refuses a grid without cells ("width and height must be > 0")
\* and numpy one of a negative size
EmptyGridOffByOne(height, width) == width < 0 \/ height < 0

EmptyGrid(height, width) == width <= 0 \/ height <= 0

\* zip(geometries, values) of lines 65-70
Shapes(rows, column_name) ==
    [i \in DOMAIN rows |-> <<rows[i].geometry, fillna(rows[i][column_name])[1]>>]

\* lines 53-75 of create_raster_from_layer: the exception raised, or the
\* grid.  An empty frame has NaN bounds and int(nan) raises ValueError; a
\* zero resolution gives inf or nan and int() raises OverflowError or
\* ValueError; rasterize raises ValueError for a grid without cells.
RasterOf(frame, column_name, resolution) ==
    IF frame.rows = <<>> THEN [exc |-> "ValueError", shape |-> None]
    ELSE LET b == total_bounds(frame.rows)
         IN IF resolution = 0
            THEN [exc |-> IF b.maxx = b.minx THEN "ValueError" ELSE "OverflowError",
                  shape |-> None]
            ELSE LET width == GridWidth(b, resolution)
                     height == GridHeight(b, resolution)
                     t == from_bounds(b.minx, b.miny, b.maxx, b.maxy, width, height)
                 IN IF EmptyGrid(height, width)
                    THEN [exc |-> "ValueError", shape |-> <<height, width>>]
                    ELSE [exc |-> "none", shape |-> <<height, width>>,
                          transform |-> t,
                          grid |-> rasterize(Shapes(frame.rows, column_name),
                                             height, width, t)]

----------------------------------------------------------------------------
(* The script *)

OutputDir == <<"output_dir">>
YearDir(year) == <<"Year_", year>>

\* col.startswith('Num_')
StartsWithNum(col) == col \in {"Num_Flood", "Num_Forest_Fire"}

\* select_dtypes(include=[np.number]): the columns of numeric dtype
IsNumeric(col) == col \in {"Year", "Num_Flood", "Num_Forest_Fire"}

\* disaster_columns of convert_gpkg_to_rasters_by_year
disaster_columns(frame, exclude_columns) == SelectSeq(frame.columns, StartsWithNum)

\* numeric_columns of convert_gpkg_to_rasters
numeric_columns(frame, exclude_columns) ==
    LET Kept(col) == IsNumeric(col) /\ col \notin exclude_columns
    IN SelectSeq(frame.columns, Kept)

\* sorted(gdf['Year'].unique())
YearsOf(frame) == sorted(unique([i \in DOMAIN frame.rows |-> frame.rows[i].Year]))

\* gdf[gdf['Year'] == year].copy()
FilterYear(frame, year) ==
    LET Is(row) == PyEq(row.Year, year)
    IN [columns |-> frame.columns, rows |-> SelectSeq(frame.rows, Is)]

\* the directory the current raster goes to, and its path
CurrentDir == IF args[1].no_year_split THEN OutputDir ELSE YearDir(years[yearIdx])
CurrentPath == <<CurrentDir, columns[colIdx]>>

Exit(code, exception) ==
    /\ exitCode' = <<code>>
    /\ uncaught' = exception
    /\ pc' = "done"

\* sys.exit(1) of a missing input file
MissingFileStatusZero == 1 - 1

MissingFileStatus == 1

\* an exception nothing catches ends the process: Python prints the traceback
\* and exits with status 1
ReturnQuietly(exception) == Exit(0, "none")

Raise(exception) == Exit(1, exception)

InitGpkg ==
    /\ pc = "start"
    /\ input_exists = None
    /\ args = None
    /\ gdf = None
    /\ years = <<>>
    /\ columns = <<>>
    /\ total_rasters = 0
    /\ yearIdx = 0
    /\ colIdx = 0
    /\ gdf_year = None
    /\ out_shape = None
    /\ raster = None
    /\ dirs = {}
    /\ files = {}
    /\ attempted = <<>>
    /\ errors = <<>>
    /\ uncaught = "none"
    /\ exitCode = None

\* __main__ with len(sys.argv) == 1: the default file, converted by year
\* with the defaults of convert_gpkg_to_rasters_by_year
RunWithoutArguments ==
    /\ pc = "start"
    /\ \E exists \in BOOLEAN :
        /\ input_exists' = <<exists>>
        /\ IF exists
           THEN /\ args' = <<[no_year_split |-> FALSE,
                              exclude |-> {"geometry", "Year", "KDPKAB"},
                              resolution |-> DefaultResolution]>>
                /\ pc' = "mkdir"
                /\ UNCHANGED <<exitCode, uncaught>>
           ELSE /\ Exit(MissingFileStatus, "none")
                /\ UNCHANGED args
    /\ UNCHANGED <<gdf, years, columns, total_rasters, yearIdx, colIdx, gdf_year,
                   out_shape, raster, dirs, files, attempted, errors>>
    /\ UNCHANGED <<download_vars, upload_vars, join_vars, combine_vars>>

\* main: parser.parse_args() of a well-formed command line
ParseArgs ==
    /\ pc = "start"
    /\ \E nys \in BOOLEAN, ex \in ExcludeLists, res \in Resolutions :
        args' = <<[no_year_split |-> nys, exclude |-> ex, resolution |-> res]>>
    /\ pc' = "exists"
    /\ UNCHANGED <<input_exists, gdf, years, columns, total_rasters, yearIdx, colIdx, gdf_year,
                   out_shape, raster, dirs, files, attempted, errors, uncaught, exitCode>>
    /\ UNCHANGED <<download_vars, upload_vars, join_vars, combine_vars>>

\* main: parser.parse_args() of a malformed command line ends the process
\* with status 2
UsageError ==
    /\ pc = "start"
    /\ Exit(2, "none")
    /\ UNCHANGED <<input_exists, args, gdf, years, columns, total_rasters, yearIdx, colIdx,
                   gdf_year, out_shape, raster, dirs, files, attempted, errors>>
    /\ UNCHANGED <<download_vars, upload_vars, join_vars, combine_vars>>

\* main: if not os.path.exists(args.gpkg_path): sys.exit(1)
CheckInputExists ==
    /\ pc = "exists"
    /\ \E exists \in BOOLEAN :
        /\ input_exists' = <<exists>>
        /\ IF exists
           THEN pc' = "mkdir" /\ UNCHANGED <<exitCode, uncaught>>
           ELSE Exit(MissingFileStatus, "none")
    /\ UNCHANGED <<args, gdf, years, columns, total_rasters, yearIdx, colIdx,
                   gdf_year, out_shape, raster, dirs, files, attempted, errors>>
    /\ UNCHANGED <<download_vars, upload_vars, join_vars, combine_vars>>

\* both converters: output_dir.mkdir(exist_ok=True), which raises
\* FileNotFoundError when the parent of output_dir is missing
MakeOutputDir ==
    /\ pc = "mkdir"
    /\ \E parent_exists \in BOOLEAN :
        IF parent_exists
        THEN /\ dirs' = dirs \cup {OutputDir}
             /\ pc' = "read"
             /\ UNCHANGED <<exitCode, uncaught>>
        ELSE /\ Raise("FileNotFoundError")
             /\ UNCHANGED dirs
    /\ UNCHANGED <<input_exists, args, gdf, years, columns, total_rasters, yearIdx, colIdx,
                   gdf_year, out_shape, raster, files, attempted, errors>>
    /\ UNCHANGED <<download_vars, upload_vars, join_vars, combine_vars>>

\* get_gpkg_layers fails: it returns None and the converter returns
ReadFails ==
    /\ pc = "read"
    /\ gdf' = None
    /\ Exit(0, "none")
    /\ UNCHANGED <<input_exists, args, years, columns, total_rasters, yearIdx, colIdx,
                   gdf_year, out_shape, raster, dirs, files, attempted, errors>>
    /\ UNCHANGED <<download_vars, upload_vars, join_vars, combine_vars>>

\* get_gpkg_layers returns the GeoDataFrame
ReadGpkg ==
    /\ pc = "read"
    /\ \E frame \in GeoDataFrames : gdf' = <<frame>>
    /\ pc' = IF args[1].no_year_split THEN "columns" ELSE "years"
    /\ UNCHANGED <<input_exists, args, years, columns, total_rasters, yearIdx, colIdx, gdf_year,
                   out_shape, raster, dirs, files, attempted, errors, uncaught, exitCode>>
    /\ UNCHANGED <<download_vars, upload_vars, join_vars, combine_vars>>

\* convert_gpkg_to_rasters_by_year, lines 169-181: gdf['Year'] raises KeyError
\* without the column, years[0] raises IndexError without features
GetYears ==
    /\ pc = "years"
    /\ IF "Year" \notin Range(gdf[1].columns)
       THEN /\ Raise("KeyError")
            /\ UNCHANGED <<years, columns, total_rasters, yearIdx>>
       ELSE IF YearsOf(gdf[1]) = <<>>
       THEN /\ Raise("IndexError")
            /\ years' = YearsOf(gdf[1])
            /\ UNCHANGED <<columns, total_rasters, yearIdx>>
       ELSE /\ years' = YearsOf(gdf[1])
            /\ columns' = disaster_columns(gdf[1], args[1].exclude)
            /\ total_rasters' = Len(years') * Len(columns')
            /\ yearIdx' = 1
            /\ pc' = "year"
            /\ UNCHANGED <<exitCode, uncaught>>
    /\ UNCHANGED <<input_exists, args, gdf, colIdx, gdf_year, out_shape, raster, dirs, files,
                   attempted, errors>>
    /\ UNCHANGED <<download_vars, upload_vars, join_vars, combine_vars>>

\* convert_gpkg_to_rasters_by_year, lines 183-190: the head of the loop over
\* years; year_dir.mkdir raises when the directory cannot be made
StartYear ==
    /\ pc = "year"
    /\ yearIdx <= Len(years)
    /\ \E made \in BOOLEAN :
        IF made
        THEN /\ dirs' = dirs \cup {YearDir(years[yearIdx])}
             /\ gdf_year' = <<FilterYear(gdf[1], years[yearIdx])>>
             /\ colIdx' = 1
             /\ pc' = "column"
             /\ UNCHANGED <<exitCode, uncaught>>
        ELSE /\ Raise("PermissionError")
             /\ UNCHANGED <<dirs, gdf_year, colIdx>>
    /\ UNCHANGED <<input_exists, args, gdf, years, columns, total_rasters, yearIdx, out_shape,
                   raster, files, attempted, errors>>
    /\ UNCHANGED <<download_vars, upload_vars, join_vars, combine_vars>>

\* convert_gpkg_to_rasters_by_year, lines 198-200: the loop over years is over
FinishYears ==
    /\ pc = "year"
    /\ yearIdx > Len(years)
    /\ Exit(0, "none")
    /\ UNCHANGED <<input_exists, args, gdf, years, columns, total_rasters, yearIdx, colIdx,
                   gdf_year, out_shape, raster, dirs, files, attempted, errors>>
    /\ UNCHANGED <<download_vars, upload_vars, join_vars, combine_vars>>

\* convert_gpkg_to_rasters, lines 231-237
SelectColumns ==
    /\ pc = "columns"
    /\ columns' = numeric_columns(gdf[1], args[1].exclude)
    /\ gdf_year' = gdf
    /\ colIdx' = 1
    /\ pc' = "column"
    /\ UNCHANGED <<input_exists, args, gdf, years, total_rasters, yearIdx, out_shape, raster, dirs,
                   files, attempted, errors, uncaught, exitCode>>
    /\ UNCHANGED <<download_vars, upload_vars, join_vars, combine_vars>>

\* the except branch of create_raster_from_layer returns, and the loop over
\* the columns goes on with the next one
ColumnAfterErrorBreak == Len(columns) + 1

ColumnAfterErrorRetry == colIdx

ColumnAfterError == colIdx + 1

\* gdf[column_name].fillna(0) returns a new Series: the frame it is taken
\* from keeps its missing values
FrameFilledInPlace(frame, column_name) ==
    [frame EXCEPT !.rows =
        [i \in DOMAIN frame.rows |->
            [frame.rows[i] EXCEPT ![column_name] = fillna(frame.rows[i][column_name])]]]

FrameAfterFill(frame, column_name) == frame

\* the grid is local to create_raster_from_layer: it is released when the
\* call returns
RasterKept == raster

RasterAfterReturn == None

\* create_raster_from_layer, lines 52-75 (and 97-98 when they raise), called
\* for the next column.  The frame of the call is the loaded collection
\* itself in convert_gpkg_to_rasters and a copy of its rows in
\* convert_gpkg_to_rasters_by_year; line 66 is reached once the size of the
\* grid is computed.
Rasterize ==
    /\ pc = "column"
    /\ colIdx <= Len(columns)
    /\ attempted' = Append(attempted, CurrentPath)
    /\ LET out == RasterOf(gdf_year[1], columns[colIdx], args[1].resolution)
           frame == IF out.shape = None THEN gdf_year[1]
                    ELSE FrameAfterFill(gdf_year[1], columns[colIdx])
       IN /\ gdf_year' = <<frame>>
          /\ gdf' = IF args[1].no_year_split THEN <<frame>> ELSE gdf
          /\ out_shape' = out.shape
          /\ IF out.exc = "none"
             THEN /\ raster' = <<out>>
                  /\ pc' = "write"
                  /\ UNCHANGED <<errors, colIdx>>
             ELSE /\ errors' = Append(errors, <<CurrentPath, out.exc>>)
                  /\ colIdx' = ColumnAfterError
                  /\ UNCHANGED <<raster, pc>>
    /\ UNCHANGED <<input_exists, args, years, columns, total_rasters, yearIdx,
                   dirs, files, uncaught, exitCode>>
    /\ UNCHANGED <<download_vars, upload_vars, join_vars, combine_vars>>

\* create_raster_from_layer, lines 77-98: the raster is written, or
\* rasterio raises and the except branch reports it
WriteRaster ==
    /\ pc = "write"
    /\ \E written \in BOOLEAN :
        IF written
        THEN /\ files' = files \cup {CurrentPath}
             /\ colIdx' = colIdx + 1
             /\ UNCHANGED errors
        ELSE /\ errors' = Append(errors, <<CurrentPath, "RasterioIOError">>)
             /\ colIdx' = ColumnAfterError
             /\ UNCHANGED files
    /\ raster' = RasterAfterReturn
    /\ pc' = "column"
    /\ UNCHANGED <<input_exists, args, gdf, years, columns, total_rasters, yearIdx,
                   gdf_year, out_shape, dirs, attempted, uncaught, exitCode>>
    /\ UNCHANGED <<download_vars, upload_vars, join_vars, combine_vars>>

\* the loop over columns is over: the next year, or the end of
\* convert_gpkg_to_rasters
EndColumns ==
    /\ pc = "column"
    /\ colIdx > Len(columns)
    /\ IF args[1].no_year_split
       THEN Exit(0, "none") /\ UNCHANGED yearIdx
       ELSE /\ yearIdx' = yearIdx + 1
            /\ pc' = "year"
            /\ UNCHANGED <<exitCode, uncaught>>
    /\ UNCHANGED <<input_exists, args, gdf, years, columns, total_rasters, colIdx, gdf_year,
                   out_shape, raster, dirs, files, attempted, errors>>
    /\ UNCHANGED <<download_vars, upload_vars, join_vars, combine_vars>>

(* download/download_global_canopy_data.py *)

LAT_MIN == 48
LAT_MAX == 57
LON_MIN == 0 - 15
LON_MAX == 0
LAT_STEP == 3
LON_STEP == 3

\* list(range(start, stop, step))
RECURSIVE PyRange(_, _, _)
PyRange(start, stop, step) ==
    IF (step > 0 /\ start < stop) \/ (step < 0 /\ start > stop)
    THEN <<start>> \o PyRange(start + step, stop, step)
    ELSE <<>>

\* f"N{lat:02d}" and f"E{lon:03d}": the letter of the hemisphere and the
\* absolute value, which its zero-padded digits write
lat_label(lat) == IF lat >= 0 THEN <<"N", lat>> ELSE <<"S", Abs(lat)>>
lon_label(lon) == IF lon >= 0 THEN <<"E", lon>> ELSE <<"W", Abs(lon)>>

lat_range == PyRange(LAT_MAX, LAT_MIN - 1, 0 - LAT_STEP)
lon_range ==
    IF LON_MIN <= LON_MAX
    THEN PyRange(LON_MIN, LON_MAX + 1, LON_STEP)
    ELSE PyRange(LON_MIN, LON_MAX - 1, 0 - LON_STEP)

Suffixes == <<"Map.tif", "Map_SD.tif">>

fname(lat, lon, suffix) == <<lat_label(lat), lon_label(lon), suffix>>

\* the file names in the order of the three loops
AllTiles ==
    [k \in 1..(Len(lat_range) * Len(lon_range) * Len(Suffixes)) |->
        LET perLat == Len(lon_range) * Len(Suffixes)
            i == ((k - 1) \div perLat) + 1
            j == (((k - 1) % perLat) \div Len(Suffixes)) + 1
            n == ((k - 1) % Len(Suffixes)) + 1
        IN fname(lat_range[i], lon_range[j], Suffixes[n])]

\* the runs of the model stop after the first MaxTiles of them
Tiles == SubSeq(AllTiles, 1, MaxTiles)

\* r.status_code
StatusCodes == {200, 404}

\* line 52: r.status_code == 200
StatusNotServerError(status_code) == status_code < 500

StatusOk(status_code) == status_code = 200

\* a file that holds the whole body of its response
Complete == <<MaxChunks>>

InitDownload ==
    /\ dl_pc = "idle"
    /\ runs = 0
    /\ tile = 0
    /\ disk = [f \in Range(Tiles) |-> None]
    /\ visited = <<>>

\* the script is run (again); os.makedirs(OUTPUT_FOLDER, exist_ok=True)
StartRun ==
    /\ dl_pc \in {"idle", "completed", "interrupted", "raised"}
    /\ runs < MaxRuns
    /\ runs' = runs + 1
    /\ tile' = 1
    /\ visited' = <<>>
    /\ dl_pc' = "tile"
    /\ UNCHANGED disk
    /\ UNCHANGED <<gpkg_vars, upload_vars, join_vars, combine_vars>>

Visit(status) ==
    visited' = Append(visited, [fname |-> Tiles[tile],
                                existed |-> disk[Tiles[tile]] # None,
                                status |-> status])

\* lines 46-48: the file is there, the loop goes on
SkipExisting ==
    /\ dl_pc = "tile"
    /\ tile <= Len(Tiles)
    /\ disk[Tiles[tile]] # None
    /\ Visit(None)
    /\ tile' = tile + 1
    /\ UNCHANGED <<dl_pc, runs, disk>>
    /\ UNCHANGED <<gpkg_vars, upload_vars, join_vars, combine_vars>>

\* lines 51-53 and 57-58: the request is answered; with 200 the file is
\* opened for writing, which creates it empty
Request ==
    /\ dl_pc = "tile"
    /\ tile <= Len(Tiles)
    /\ disk[Tiles[tile]] = None
    /\ \E status_code \in StatusCodes :
        /\ Visit(<<status_code>>)
        /\ IF StatusOk(status_code)
           THEN /\ disk' = [disk EXCEPT ![Tiles[tile]] = <<0>>]
                /\ dl_pc' = "writing"
                /\ UNCHANGED tile
           ELSE /\ tile' = tile + 1
                /\ UNCHANGED <<disk, dl_pc>>
    /\ UNCHANGED runs
    /\ UNCHANGED <<gpkg_vars, upload_vars, join_vars, combine_vars>>

\* line 51: requests.get raises (no connection), and nothing catches it
RequestRaises ==
    /\ dl_pc = "tile"
    /\ tile <= Len(Tiles)
    /\ disk[Tiles[tile]] = None
    /\ dl_pc' = "raised"
    /\ UNCHANGED <<runs, tile, disk, visited>>
    /\ UNCHANGED <<gpkg_vars, upload_vars, join_vars, combine_vars>>

\* lines 54-55: one chunk of the body is written
WriteChunk ==
    /\ dl_pc = "writing"
    /\ disk[Tiles[tile]][1] < MaxChunks
    /\ disk' = [disk EXCEPT ![Tiles[tile]] = <<@[1] + 1>>]
    /\ UNCHANGED <<dl_pc, runs, tile, visited>>
    /\ UNCHANGED <<gpkg_vars, upload_vars, join_vars, combine_vars>>

\* lines 54-56: the body is over and the file is closed
FinishTile ==
    /\ dl_pc = "writing"
    /\ disk[Tiles[tile]] = Complete
    /\ tile' = tile + 1
    /\ dl_pc' = "tile"
    /\ UNCHANGED <<runs, disk, visited>>
    /\ UNCHANGED <<gpkg_vars, upload_vars, join_vars, combine_vars>>

\* the run is stopped from outside (Ctrl-C, a kill, a lost connection while
\* the body streams): what is on the disk stays
Interrupt ==
    /\ dl_pc \in {"tile", "writing"}
    /\ dl_pc' = "interrupted"
    /\ UNCHANGED <<runs, tile, disk, visited>>
    /\ UNCHANGED <<gpkg_vars, upload_vars, join_vars, combine_vars>>

\* the loops are over
EndRun ==
    /\ dl_pc = "tile"
    /\ tile > Len(Tiles)
    /\ dl_pc' = "completed"
    /\ UNCHANGED <<runs, tile, disk, visited>>
    /\ UNCHANGED <<gpkg_vars, upload_vars, join_vars, combine_vars>>

----------------------------------------------------------------------------
(* geoserver_tests/bulk_upload_rasters.py *)

\* a string is the sequence of its characters
Str_fire == <<"f", "i", "r", "e">>
Str_flood == <<"f", "l", "o", "o", "d">>
Str_landslide == <<"l", "a", "n", "d", "s", "l", "i", "d", "e">>
Str_unknown == <<"u", "n", "k", "n", "o", "w", "n">>
Str_forest_fire == <<"f", "o", "r", "e", "s", "t", "_", "f", "i", "r", "e">>
Str_land_slide == <<"l", "a", "n", "d", "_", "s", "l", "i", "d", "e">>
Str_Year_ == <<"Y", "e", "a", "r", "_">>
Str_layer == <<"_", "l", "a", "y", "e", "r">>

\* names of files in a year folder
Num_Forest_Fire_tif == <<"N", "u", "m", "_", "F", "o", "r", "e", "s", "t", "_", "F", "i", "r", "e", ".", "t", "i", "f">>
Num_Flood_tif == <<"N", "u", "m", "_", "F", "l", "o", "o", "d", ".", "t", "i", "f">>
Num_Land_Slide_tif == <<"N", "u", "m", "_", "L", "a", "n", "d", "_", "S", "l", "i", "d", "e", ".", "t", "i", "f">>
Num_Earthquake_tif == <<"N", "u", "m", "_", "E", "a", "r", "t", "h", "q", "u", "a", "k", "e", ".", "t", "i", "f">>
notes_txt == <<"n", "o", "t", "e", "s", ".", "t", "x", "t">>

FileNames == {Num_Forest_Fire_tif, Num_Flood_tif, Num_Land_Slide_tif, Num_Earthquake_tif,
              notes_txt}

\* names of entries of the rasters folder
Year_2001 == <<"Y", "e", "a", "r", "_", "2", "0", "0", "1">>
Year_2002 == <<"Y", "e", "a", "r", "_", "2", "0", "0", "2">>
misc == <<"m", "i", "s", "c">>

\* the entries of the rasters folder, with os.path.isdir of each
RootEntries ==
    { [name |-> Year_2001, isdir |-> TRUE], [name |-> Year_2002, isdir |-> TRUE],
      [name |-> misc, isdir |-> TRUE], [name |-> notes_txt, isdir |-> FALSE] }

\* os.listdir: the entries in any order
Listings(S, n) ==
    { l \in SeqsUpTo(S, n) : \A i, j \in DOMAIN l : i # j => l[i] # l[j] }

UpperCase == <<"A", "B", "C", "D", "E", "F", "G", "H", "I", "J", "K", "L", "M", "N", "O", "P", "Q", "R", "S", "T", "U", "V", "W", "X", "Y", "Z">>
LowerCase == <<"a", "b", "c", "d", "e", "f", "g", "h", "i", "j", "k", "l", "m", "n", "o", "p", "q", "r", "s", "t", "u", "v", "w", "x", "y", "z">>
Digits == {"0", "1", "2", "3", "4", "5", "6", "7", "8", "9"}

\* the characters of the names, and the lower case of each
Characters == Range(UpperCase) \cup Range(LowerCase) \cup Digits \cup {"_", "."}
LowerOf ==
    [c \in Characters |->
        IF \E k \in DOMAIN UpperCase : UpperCase[k] = c
        THEN LowerCase[CHOOSE k \in DOMAIN UpperCase : UpperCase[k] = c]
        ELSE c]

\* str.lower()
lower(str) == [i \in DOMAIN str |-> LowerOf[str[i]]]

\* sub in str
Contains(str, sub) ==
    \E i \in 1..(Len(str) - Len(sub) + 1) : SubSeq(str, i, i + Len(sub) - 1) = sub

\* str.endswith(sub)
EndsWith(str, sub) ==
    Len(sub) <= Len(str) /\ SubSeq(str, Len(str) - Len(sub) + 1, Len(str)) = sub

\* get_disaster_type_from_filename
get_disaster_type_one_word(filename) ==
    LET filename_lower == lower(filename)
    IN IF Contains(filename_lower, Str_fire) THEN Str_fire
       ELSE IF Contains(filename_lower, Str_flood) THEN Str_flood
       ELSE IF Contains(filename_lower, Str_landslide) THEN Str_landslide
       ELSE Str_unknown

get_disaster_type_from_filename(filename) ==
    LET filename_lower == lower(filename)
    IN IF Contains(filename_lower, Str_forest_fire) \/ Contains(filename_lower, Str_fire)
       THEN Str_fire
       ELSE IF Contains(filename_lower, Str_flood) THEN Str_flood
       ELSE IF Contains(filename_lower, Str_land_slide)
                 \/ Contains(filename_lower, Str_landslide)
       THEN Str_landslide
       ELSE Str_unknown

\* the places where r'Year_(\d{4})' matches
YearMatches(folder_name) ==
    { i \in 1..(Len(folder_name) - 8) :
        /\ SubSeq(folder_name, i, i + 4) = Str_Year_
        /\ \A k \in (i + 5)..(i + 8) : folder_name[k] \in Digits }

\* get_year_from_folder: group 1 of the first match, or None
get_year_from_folder(folder_name) ==
    IF YearMatches(folder_name) = {} THEN None
    ELSE LET i == Min(YearMatches(folder_name))
         IN <<SubSeq(folder_name, i + 5, i + 8)>>

\* filename.lower().endswith(('.tif', '.tiff', '.geotiff'))
IsRasterName(filename) ==
    \/ EndsWith(lower(filename), <<".", "t", "i", "f">>)
    \/ EndsWith(lower(filename), <<".", "t", "i", "f", "f">>)
    \/ EndsWith(lower(filename), <<".", "g", "e", "o", "t", "i", "f", "f">>)

\* upload_raster_file, lines 88-89
store_name_of(disaster_type, y) == disaster_type \o <<"_">> \o y
layer_name_of(disaster_type, y) == store_name_of(disaster_type, y) \o Str_layer

\* response.status_code of the layer creation
LayerStatusCodes == {201, 500}

\* what the POST of the layer gives: a response with its status code, or
\* None when it raises
LayerResponses == {None} \cup { <<status_code>> : status_code \in LayerStatusCodes }

\* upload_raster_file, line 113: layer_response.status_code == 201
LayerCreatedOnAnyAnswer(response) == response # None

LayerCreated(response) == response = <<201>>

InitUpload ==
    /\ up_pc = "start"
    /\ listing = <<>>
    /\ folderIdx = 0
    /\ up_year = None
    /\ file_list = <<>>
    /\ fileIdx = 0
    /\ calls = <<>>
    /\ successful_uploads = <<>>
    /\ failed_uploads = <<>>

\* main, lines 133-146: without the rasters folder main returns, else the
\* folder is listed
ScanRastersFolder ==
    /\ up_pc = "start"
    /\ \E exists \in BOOLEAN :
        IF exists
        THEN /\ \E l \in Listings(RootEntries, MaxFolders) : listing' = l
             /\ folderIdx' = 1
             /\ up_pc' = "folder"
        ELSE /\ up_pc' = "done"
             /\ UNCHANGED <<listing, folderIdx>>
    /\ UNCHANGED <<up_year, file_list, fileIdx, calls, successful_uploads, failed_uploads>>
    /\ UNCHANGED <<gpkg_vars, download_vars, join_vars, combine_vars>>

\* main, lines 147-156: an entry that is no directory, or whose name holds
\* no year, is passed over
SkipEntry ==
    /\ up_pc = "folder"
    /\ folderIdx <= Len(listing)
    /\ \/ ~listing[folderIdx].isdir
       \/ get_year_from_folder(listing[folderIdx].name) = None
    /\ folderIdx' = folderIdx + 1
    /\ UNCHANGED <<up_pc, listing, up_year, file_list, fileIdx, calls, successful_uploads,
                   failed_uploads>>
    /\ UNCHANGED <<gpkg_vars, download_vars, join_vars, combine_vars>>

\* main, lines 147-162: a year folder is entered and listed
EnterYearFolder ==
    /\ up_pc = "folder"
    /\ folderIdx <= Len(listing)
    /\ listing[folderIdx].isdir
    /\ get_year_from_folder(listing[folderIdx].name) # None
    /\ up_year' = get_year_from_folder(listing[folderIdx].name)
    /\ \E l \in Listings(FileNames, MaxFiles) : file_list' = l
    /\ fileIdx' = 1
    /\ up_pc' = "file"
    /\ UNCHANGED <<listing, folderIdx, calls, successful_uploads, failed_uploads>>
    /\ UNCHANGED <<gpkg_vars, download_vars, join_vars, combine_vars>>

\* main, lines 162-171: a file that is no raster, or whose disaster type is
\* unknown, is passed over
SkipFile ==
    /\ up_pc = "file"
    /\ fileIdx <= Len(file_list)
    /\ \/ ~IsRasterName(file_list[fileIdx])
       \/ get_disaster_type_from_filename(file_list[fileIdx]) = Str_unknown
    /\ fileIdx' = fileIdx + 1
    /\ UNCHANGED <<up_pc, listing, folderIdx, up_year, file_list, calls, successful_uploads,
                   failed_uploads>>
    /\ UNCHANGED <<gpkg_vars, download_vars, join_vars, combine_vars>>

\* the record main keeps of a file that was handed to upload_raster_file,
\* lines 178-192 (a failed upload is kept without its layer name)
Record(filename, disaster_type, layer) ==
    [file |-> filename, year |-> up_year[1], disaster_type |-> disaster_type,
     store_name |-> store_name_of(disaster_type, up_year[1]), layer_name |-> layer]

\* main, lines 162-176, and upload_raster_file, lines 84-105 (and 121-123
\* when it raises): gs.create_coveragestore is called for the file
CreateStore ==
    /\ up_pc = "file"
    /\ fileIdx <= Len(file_list)
    /\ IsRasterName(file_list[fileIdx])
    /\ get_disaster_type_from_filename(file_list[fileIdx]) # Str_unknown
    /\ LET filename == file_list[fileIdx]
           disaster_type == get_disaster_type_from_filename(filename)
       IN /\ \E raised \in BOOLEAN :
             /\ calls' = Append(calls,
                    [call |-> "create_coveragestore",
                     name |-> store_name_of(disaster_type, up_year[1]),
                     path |-> <<listing[folderIdx].name, filename>>,
                     raised |-> raised, response |-> None])
             /\ IF raised
                THEN /\ failed_uploads' =
                            Append(failed_uploads, Record(filename, disaster_type, None))
                     /\ fileIdx' = fileIdx + 1
                     /\ UNCHANGED up_pc
                ELSE /\ up_pc' = "layer"
                     /\ UNCHANGED <<failed_uploads, fileIdx>>
    /\ UNCHANGED <<listing, folderIdx, up_year, file_list, successful_uploads>>
    /\ UNCHANGED <<gpkg_vars, download_vars, join_vars, combine_vars>>

\* upload_raster_file, lines 107-123, and main, lines 178-192: the layer is
\* created with a POST; 201 is the success, any other status and an exception
\* of the POST are the failure
CreateLayer ==
    /\ up_pc = "layer"
    /\ LET filename == file_list[fileIdx]
           disaster_type == get_disaster_type_from_filename(filename)
           layer_name == layer_name_of(disaster_type, up_year[1])
       IN /\ \E response \in LayerResponses :
             /\ calls' = Append(calls,
                    [call |-> "create_layer", name |-> layer_name,
                     path |-> <<listing[folderIdx].name, filename>>,
                     raised |-> response = None, response |-> response])
             /\ IF LayerCreated(response)
                THEN /\ successful_uploads' =
                        Append(successful_uploads,
                               Record(filename, disaster_type, <<layer_name>>))
                     /\ UNCHANGED failed_uploads
                ELSE /\ failed_uploads' =
                        Append(failed_uploads, Record(filename, disaster_type, None))
                     /\ UNCHANGED successful_uploads
    /\ fileIdx' = fileIdx + 1
    /\ up_pc' = "file"
    /\ UNCHANGED <<listing, folderIdx, up_year, file_list>>
    /\ UNCHANGED <<gpkg_vars, download_vars, join_vars, combine_vars>>

\* the files of the year folder are over
LeaveYearFolder ==
    /\ up_pc = "file"
    /\ fileIdx > Len(file_list)
    /\ folderIdx' = folderIdx + 1
    /\ up_pc' = "folder"
    /\ UNCHANGED <<listing, up_year, file_list, fileIdx, calls, successful_uploads,
                   failed_uploads>>
    /\ UNCHANGED <<gpkg_vars, download_vars, join_vars, combine_vars>>

\* main, lines 194-243: the folders are over; the summary is printed
PrintSummary ==
    /\ up_pc = "folder"
    /\ folderIdx > Len(listing)
    /\ up_pc' = "done"
    /\ UNCHANGED <<listing, folderIdx, up_year, file_list, fileIdx, calls, successful_uploads,
                   failed_uploads>>
    /\ UNCHANGED <<gpkg_vars, download_vars, join_vars, combine_vars>>

----------------------------------------------------------------------------
(* csv_to_shp/main.py *)

\* --csv_id_by and --shp_id_by
csv_id_by == "id"
shp_id_by == "KEY"

\* the keys and the values of the cells
Keys == {<<1>>, <<2>>}
Values == {NaN, <<7>>, <<8>>}

\* a table is its columns, in order, and its rows; a row gives a cell for
\* each column
Table(cols, rows) == [columns |-> cols, rows |-> rows]

\* pd.read_csv(csv_file): the header line has the id column alone, with a
\* column of its own, or with a column named as a column of the shapefile
CsvTables ==
    UNION { { Table(cols, rows) :
                rows \in SeqsUpTo({ r \in [Range(cols) -> Keys \cup Values] :
                                      /\ r[csv_id_by] \in Keys
                                      /\ \A c \in Range(cols) \ {csv_id_by} : r[c] \in Values },
                                  MaxCsvRows) } :
            cols \in { <<csv_id_by>>, <<csv_id_by, "value">>, <<csv_id_by, "name">>,
                       <<csv_id_by, shp_id_by>> } }

\* gpd.read_file(shp_file): the key of a record, its name and its geometry,
\* which is of this record only
ShpTables ==
    { Table(<<shp_id_by, "name", "geometry">>,
            [i \in DOMAIN keys |->
                [c \in {shp_id_by, "name", "geometry"} |->
                    CASE c = shp_id_by -> keys[i]
                      [] c = "name" -> <<5>>
                      [] OTHER -> <<100 + i>>]]) :
        keys \in SeqsUpTo(Keys, MaxShpRows) }

\* table[column] as the set of its cells
ColumnOf(table, column) == { table.rows[i][column] : i \in DOMAIN table.rows }

\* line 11: shp[shp[shp_id_by].isin(df[csv_id_by])]
matches ==
    LET Keep(r) == r[shp_id_by] \in ColumnOf(df, csv_id_by)
    IN SelectSeq(shp.rows, Keep)

\* line 13: df[~df[csv_id_by].isin(matches[shp_id_by])]
not_matches ==
    LET Keep(r) == r[csv_id_by] \notin { matches[i][shp_id_by] : i \in DOMAIN matches }
    IN SelectSeq(df.rows, Keep)

\* line 14: shp[~shp[shp_id_by].isin(matches[shp_id_by])]
not_matches_shp ==
    LET Keep(r) == r[shp_id_by] \notin { matches[i][shp_id_by] : i \in DOMAIN matches }
    IN SelectSeq(shp.rows, Keep)

\* line 35: [col for col in df.columns if col != csv_id_by]
csv_columns ==
    LET Keep(c) == c # csv_id_by
    IN SelectSeq(df.columns, Keep)

\* table[column] = value: a column of that name takes the value in every
\* row, and the column is added at the end when the table has none
SetColumn(table, column, value) ==
    Table(IF column \in Range(table.columns) THEN table.columns
          ELSE Append(table.columns, column),
          [i \in DOMAIN table.rows |->
            [c \in Range(table.columns) \cup {column} |->
                IF c = column THEN value ELSE table.rows[i][c]]])

\* lines 38-39: every CSV column is set to NaN
RECURSIVE InitColumns(_, _)
InitColumns(table, cols) ==
    IF cols = <<>> THEN table
    ELSE InitColumns(SetColumn(table, Head(cols), NaN), Tail(cols))

\* lines 45-49: the rows of the mask take the cells of the CSV row
AssignRow(table, csv_row) ==
    LET matching_mask == [i \in DOMAIN table.rows |-> PyEq(table.rows[i][shp_id_by],
                                                          csv_row[csv_id_by])]
    IN Table(table.columns,
             [i \in DOMAIN table.rows |->
                [c \in Range(table.columns) |->
                    IF matching_mask[i] /\ c \in Range(csv_columns)
                    THEN csv_row[c] ELSE table.rows[i][c]]])

InitJoin ==
    /\ join_pc = "start"
    /\ df = None
    /\ shp = None
    /\ prompts = <<>>
    /\ result_shp = None
    /\ idx = 0
    /\ output_file = None
    /\ join_uncaught = "none"

\* lines 7-8: the two files are read
ReadFiles ==
    /\ join_pc = "start"
    /\ df' \in CsvTables
    /\ shp' \in ShpTables
    /\ join_pc' = "check_csv"
    /\ UNCHANGED <<prompts, result_shp, idx, output_file, join_uncaught>>
    /\ UNCHANGED <<gpkg_vars, download_vars, upload_vars, combine_vars>>

\* lines 16-22: rows of the CSV match no record, and the user is asked
PromptCsv ==
    /\ join_pc = "check_csv"
    /\ Len(not_matches) > 0
    /\ \E answer \in {"y", "n", "Y"} :
        /\ prompts' = Append(prompts, [side |-> "CSV", answer |-> answer])
        /\ join_pc' = IF answer # "y" THEN "returned" ELSE "check_shp"
    /\ UNCHANGED <<df, shp, result_shp, idx, output_file, join_uncaught>>
    /\ UNCHANGED <<gpkg_vars, download_vars, upload_vars, combine_vars>>

\* line 16: every row of the CSV matches a record
NoPromptCsv ==
    /\ join_pc = "check_csv"
    /\ Len(not_matches) = 0
    /\ join_pc' = "check_shp"
    /\ UNCHANGED <<df, shp, prompts, result_shp, idx, output_file, join_uncaught>>
    /\ UNCHANGED <<gpkg_vars, download_vars, upload_vars, combine_vars>>

\* lines 23-29: records match no row of the CSV, and the user is asked
PromptShp ==
    /\ join_pc = "check_shp"
    /\ Len(not_matches_shp) > 0
    /\ \E answer \in {"y", "n", "Y"} :
        /\ prompts' = Append(prompts, [side |-> "Shp", answer |-> answer])
        /\ join_pc' = IF answer # "y" THEN "returned" ELSE "copy"
    /\ UNCHANGED <<df, shp, result_shp, idx, output_file, join_uncaught>>
    /\ UNCHANGED <<gpkg_vars, download_vars, upload_vars, combine_vars>>

\* line 23: every record matches a row of the CSV
NoPromptShp ==
    /\ join_pc = "check_shp"
    /\ Len(not_matches_shp) = 0
    /\ join_pc' = "copy"
    /\ UNCHANGED <<df, shp, prompts, result_shp, idx, output_file, join_uncaught>>
    /\ UNCHANGED <<gpkg_vars, download_vars, upload_vars, combine_vars>>

\* lines 32-39: the copy of the shapefile, with the CSV columns set to NaN
CopyShp ==
    /\ join_pc = "copy"
    /\ result_shp' = InitColumns(shp, csv_columns)
    /\ idx' = 1
    /\ join_pc' = "rows"
    /\ UNCHANGED <<df, shp, prompts, output_file, join_uncaught>>
    /\ UNCHANGED <<gpkg_vars, download_vars, upload_vars, combine_vars>>

\* lines 42-49: one row of df.iterrows()
JoinRow ==
    /\ join_pc = "rows"
    /\ idx <= Len(df.rows)
    /\ result_shp' = AssignRow(result_shp, df.rows[idx])
    /\ idx' = idx + 1
    /\ UNCHANGED <<join_pc, df, shp, prompts, output_file, join_uncaught>>
    /\ UNCHANGED <<gpkg_vars, download_vars, upload_vars, combine_vars>>

\* lines 53-63: result_shp.to_file(output_file)
WriteShp ==
    /\ join_pc = "rows"
    /\ idx > Len(df.rows)
    /\ output_file' = result_shp
    /\ join_pc' = "summary"
    /\ UNCHANGED <<df, shp, prompts, result_shp, idx, join_uncaught>>
    /\ UNCHANGED <<gpkg_vars, download_vars, upload_vars, combine_vars>>

\* lines 66-70: the summary reads csv_columns[0], which a CSV of the id
\* column alone does not have
Summary ==
    /\ join_pc = "summary"
    /\ IF csv_columns = <<>>
       THEN /\ join_uncaught' = "IndexError"
            /\ join_pc' = "raised"
       ELSE /\ join_pc' = "returned"
            /\ UNCHANGED join_uncaught
    /\ UNCHANGED <<df, shp, prompts, result_shp, idx, output_file>>
    /\ UNCHANGED <<gpkg_vars, download_vars, upload_vars, combine_vars>>

----------------------------------------------------------------------------
(* combine_csv/main.py *)

Str_Provinsi == <<"Provinsi">>

\* line 56: 'Catatan|Kualitas|Indonesia'
NotePatterns ==
    { <<"C", "a", "t", "a", "t", "a", "n">>,
      <<"K", "u", "a", "l", "i", "t", "a", "s">>,
      <<"I", "n", "d", "o", "n", "e", "s", "i", "a">> }

\* the names of the files: b2020.csv, b2021.csv, r20215.csv with a longer
\* number and b123.csv with a shorter
CsvNames ==
    { <<"b", "2", "0", "2", "0", ".", "c", "s", "v">>,
      <<"b", "2", "0", "2", "1", ".", "c", "s", "v">>,
      <<"r", "2", "0", "2", "1", "5", ".", "c", "s", "v">>,
      <<"b", "1", "2", "3", ".", "c", "s", "v">> }

\* what pd.read_csv gives for a file: None when it raises (or the table has
\* no column Provinsi), else the table.  A row has the province, the
\* production and, where the file has a third column, an area.
CsvContents ==
    LET Beras == <<"Beras">>
        Luas == <<"Luas">>
        Aceh == <<"A", "c", "e", "h">>
        Bali == <<"B", "a", "l", "i">>
        Indonesia == <<"I", "n", "d", "o", "n", "e", "s", "i", "a">>
        Row(provinsi, beras) ==
            [c \in {Str_Provinsi, Beras} |-> IF c = Str_Provinsi THEN provinsi ELSE beras]
        RowLuas(provinsi, beras, luas) ==
            [c \in {Str_Provinsi, Beras, Luas} |->
                CASE c = Str_Provinsi -> provinsi [] c = Beras -> beras [] OTHER -> luas]
    IN { None,
         Table(<<Str_Provinsi, Beras>>, <<Row(<<Aceh>>, <<1>>)>>),
         Table(<<Str_Provinsi, Beras>>, <<Row(<<Indonesia>>, <<9>>), Row(<<Bali>>, <<2>>)>>),
         Table(<<Str_Provinsi, Beras, Luas>>,
               <<RowLuas(<<Bali>>, <<4>>, <<6>>), RowLuas(NaN, NaN, NaN),
                 RowLuas(<<Aceh>>, <<3>>, <<5>>)>>) }

\* list(csv_folder.glob("*.csv")): files of different names, in any order
CsvFolders ==
    { l \in SeqsUpTo([name : CsvNames, content : CsvContents], MaxCsvFiles) :
        \A i, j \in DOMAIN l : l[i].name = l[j].name => i = j }

\* re.search(r'(\d{4})', filename): the first four digits in a row
extract_year_from_filename(filename) ==
    LET at == { i \in 1..(Len(filename) - 3) : Range(SubSeq(filename, i, i + 3)) \subseteq Digits }
    IN IF at = {} THEN None
       ELSE LET i == CHOOSE i \in at : \A j \in at : i <= j
            IN <<SubSeq(filename, i, i + 3)>>

\* the code points of the characters, in their order
CodePointOrder == <<".">> \o <<"0", "1", "2", "3", "4", "5", "6", "7", "8", "9">>
                    \o UpperCase \o <<"_">> \o LowerCase
OrdOf == [c \in Characters |-> CHOOSE k \in DOMAIN CodePointOrder : CodePointOrder[k] = c]

\* a < b of two strings
RECURSIVE StrLess(_, _)
StrLess(a, b) ==
    IF b = <<>> THEN FALSE
    ELSE IF a = <<>> THEN TRUE
    ELSE IF Head(a) = Head(b) THEN StrLess(Tail(a), Tail(b))
    ELSE OrdOf[Head(a)] < OrdOf[Head(b)]

\* sorted() of a set of strings
RECURSIVE SortedStrings(_)
SortedStrings(S) ==
    IF S = {} THEN <<>>
    ELSE LET least == CHOOSE a \in S : \A b \in S : ~StrLess(b, a)
         IN <<least>> \o SortedStrings(S \ {least})

\* lines 55-57: the rows with a province, without the notes and the total
CleanRows(table) ==
    LET Keep(r) ==
            /\ ~IsNaN(r[Str_Provinsi])
            /\ \A pattern \in NotePatterns : ~Contains(r[Str_Provinsi][1], pattern)
            /\ r[Str_Provinsi][1] # <<>>
    IN SelectSeq(table.rows, Keep)

\* f'Beras (ton) {year}'
BerasColumn(year) == <<"Beras (ton) ">> \o year

\* lines 61-63: df_clean, the province and the second column, renamed
df_clean(table, year) ==
    LET beras_column == table.columns[2]
    IN Table(<<Str_Provinsi, BerasColumn(year)>>,
             [i \in DOMAIN CleanRows(table) |->
                [c \in {Str_Provinsi, BerasColumn(year)} |->
                    IF c = Str_Provinsi THEN CleanRows(table)[i][Str_Provinsi]
                    ELSE CleanRows(table)[i][beras_column]]])

\* yearly_data[year] = value: a key that is there keeps its place
SetItem(dict, year, value) ==
    IF \E i \in DOMAIN dict : dict[i].key = year
    THEN [i \in DOMAIN dict |-> IF dict[i].key = year THEN [key |-> year, value |-> value]
                                ELSE dict[i]]
    ELSE Append(dict, [key |-> year, value |-> value])

\* yearly_data[year]
GetItem(dict, year) == dict[CHOOSE i \in DOMAIN dict : dict[i].key = year].value

\* the sequences of a sequence, one after the other
RECURSIVE Concat(_)
Concat(seqs) == IF seqs = <<>> THEN <<>> ELSE Head(seqs) \o Concat(Tail(seqs))

\* pd.merge(left, right, on='Provinsi', how=...): the keys in their order;
\* a key gives each of its rows of the one table with each of its rows of the
\* other, and NaN for the table that has no row of the key
MergeOn(left, right, WithoutPartner) ==
    LET key_order == SortedStrings({ left.rows[i][Str_Provinsi][1] : i \in DOMAIN left.rows }
                              \cup { right.rows[i][Str_Provinsi][1] : i \in DOMAIN right.rows })
        MergeKey(key) ==
            LET Is(r) == r[Str_Provinsi] = <<key>>
                l == SelectSeq(left.rows, Is)
                r == SelectSeq(right.rows, Is)
                Joined(a, b) ==
                    [c \in Range(left.columns) \cup Range(right.columns) |->
                        IF c = Str_Provinsi THEN <<key>>
                        ELSE IF c \in Range(left.columns)
                             THEN (IF a = 0 THEN NaN ELSE l[a][c])
                             ELSE (IF b = 0 THEN NaN ELSE r[b][c])]
            IN IF l = <<>>
               THEN (IF WithoutPartner THEN [b \in DOMAIN r |-> Joined(0, b)] ELSE <<>>)
               ELSE IF r = <<>>
               THEN (IF WithoutPartner THEN [a \in DOMAIN l |-> Joined(a, 0)] ELSE <<>>)
               ELSE Concat([a \in DOMAIN l |-> [b \in DOMAIN r |-> Joined(a, b)]])
    IN Table(left.columns \o Tail(right.columns),
             Concat([k \in DOMAIN key_order |-> MergeKey(key_order[k])]))

\* line 86: how='outer'
merge_inner(left, right) == MergeOn(left, right, FALSE)

merge(left, right) == MergeOn(left, right, TRUE)

\* lines 84-86: the tables of the years after the first are merged in
RECURSIVE MergeYears(_, _, _)
MergeYears(table, dict, year_list) ==
    IF year_list = <<>> THEN table
    ELSE MergeYears(merge(table, GetItem(dict, Head(year_list))), dict, Tail(year_list))

\* line 89: sort_values('Provinsi'), a row after the rows it is not less than
RECURSIVE sort_values(_)
sort_values(row_list) ==
    IF row_list = <<>> THEN <<>>
    ELSE LET done == sort_values(SubSeq(row_list, 1, Len(row_list) - 1))
             last == row_list[Len(row_list)]
             Before(r) == ~StrLess(last[Str_Provinsi][1], r[Str_Provinsi][1])
             After(r) == StrLess(last[Str_Provinsi][1], r[Str_Provinsi][1])
         IN SelectSeq(done, Before) \o <<last>> \o SelectSeq(done, After)

InitCombine ==
    /\ cb_pc = "start"
    /\ csv_files = <<>>
    /\ cb_idx = 0
    /\ yearly_data = <<>>
    /\ processed = <<>>
    /\ combined_df = None

\* lines 22-24: there is no csvs folder
FolderMissing ==
    /\ cb_pc = "start"
    /\ cb_pc' = "returned"
    /\ UNCHANGED <<csv_files, cb_idx, yearly_data, processed, combined_df>>
    /\ UNCHANGED <<gpkg_vars, download_vars, upload_vars, join_vars>>

\* lines 27-36: the files are listed; without any the function returns
ListCsvFiles ==
    /\ cb_pc = "start"
    /\ csv_files' \in CsvFolders
    /\ IF csv_files' = <<>>
       THEN cb_pc' = "returned" /\ UNCHANGED cb_idx
       ELSE cb_pc' = "files" /\ cb_idx' = 1
    /\ UNCHANGED <<yearly_data, processed, combined_df>>
    /\ UNCHANGED <<gpkg_vars, download_vars, upload_vars, join_vars>>

\* lines 43-47: a name without a year is skipped
SkipNoYear ==
    /\ cb_pc = "files"
    /\ cb_idx <= Len(csv_files)
    /\ extract_year_from_filename(csv_files[cb_idx].name) = None
    /\ processed' = Append(processed, [name |-> csv_files[cb_idx].name, year |-> None,
                                        outcome |-> "skipped"])
    /\ cb_idx' = cb_idx + 1
    /\ UNCHANGED <<cb_pc, csv_files, yearly_data, combined_df>>
    /\ UNCHANGED <<gpkg_vars, download_vars, upload_vars, join_vars>>

\* lines 49-51 and 68-70: the file cannot be processed, and the loop goes on
ProcessFails ==
    /\ cb_pc = "files"
    /\ cb_idx <= Len(csv_files)
    /\ extract_year_from_filename(csv_files[cb_idx].name) # None
    /\ csv_files[cb_idx].content = None
    /\ processed' = Append(processed,
            [name |-> csv_files[cb_idx].name,
             year |-> extract_year_from_filename(csv_files[cb_idx].name),
             outcome |-> "error"])
    /\ cb_idx' = cb_idx + 1
    /\ UNCHANGED <<cb_pc, csv_files, yearly_data, combined_df>>
    /\ UNCHANGED <<gpkg_vars, download_vars, upload_vars, join_vars>>

\* lines 49-66: the table of the file becomes the table of its year
ProcessFile ==
    /\ cb_pc = "files"
    /\ cb_idx <= Len(csv_files)
    /\ extract_year_from_filename(csv_files[cb_idx].name) # None
    /\ csv_files[cb_idx].content # None
    /\ LET year == extract_year_from_filename(csv_files[cb_idx].name)
       IN /\ yearly_data' = SetItem(yearly_data, year[1],
                                    df_clean(csv_files[cb_idx].content, year[1]))
          /\ processed' = Append(processed, [name |-> csv_files[cb_idx].name,
                                              year |-> year, outcome |-> "added"])
    /\ cb_idx' = cb_idx + 1
    /\ UNCHANGED <<cb_pc, csv_files, combined_df>>
    /\ UNCHANGED <<gpkg_vars, download_vars, upload_vars, join_vars>>

\* lines 72-74: no file gave a table
NothingToCombine ==
    /\ cb_pc = "files"
    /\ cb_idx > Len(csv_files)
    /\ yearly_data = <<>>
    /\ cb_pc' = "returned"
    /\ UNCHANGED <<csv_files, cb_idx, yearly_data, processed, combined_df>>
    /\ UNCHANGED <<gpkg_vars, download_vars, upload_vars, join_vars>>

\* lines 77-107: the tables are merged in the order of the years, sorted by
\* province and written
Combine ==
    /\ cb_pc = "files"
    /\ cb_idx > Len(csv_files)
    /\ yearly_data # <<>>
    /\ LET year_list == SortedStrings({ yearly_data[i].key : i \in DOMAIN yearly_data })
           merged == MergeYears(GetItem(yearly_data, Head(year_list)), yearly_data,
                                Tail(year_list))
       IN combined_df' = Table(merged.columns, sort_values(merged.rows))
    /\ cb_pc' = "returned"
    /\ UNCHANGED <<csv_files, cb_idx, yearly_data, processed>>
    /\ UNCHANGED <<gpkg_vars, download_vars, upload_vars, join_vars>>

----------------------------------------------------------------------------
(* The specifications: each script runs from the state where none has begun *)

Init == InitGpkg /\ InitDownload /\ InitUpload /\ InitJoin /\ InitCombine

Next ==
    \/ RunWithoutArguments
    \/ ParseArgs
    \/ UsageError
    \/ CheckInputExists
    \/ MakeOutputDir
    \/ ReadFails
    \/ ReadGpkg
    \/ GetYears
    \/ StartYear
    \/ FinishYears
    \/ SelectColumns
    \/ Rasterize
    \/ WriteRaster
    \/ EndColumns

Spec == Init /\ [][Next]_vars

NextDownload ==
    \/ StartRun
    \/ SkipExisting
    \/ Request
    \/ RequestRaises
    \/ WriteChunk
    \/ FinishTile
    \/ Interrupt
    \/ EndRun

SpecDownload == Init /\ [][NextDownload]_vars

NextUpload ==
    \/ ScanRastersFolder
    \/ SkipEntry
    \/ EnterYearFolder
    \/ SkipFile
    \/ CreateStore
    \/ CreateLayer
    \/ LeaveYearFolder
    \/ PrintSummary

SpecUpload == Init /\ [][NextUpload]_vars

NextJoin ==
    \/ ReadFiles
    \/ PromptCsv
    \/ NoPromptCsv
    \/ PromptShp
    \/ NoPromptShp
    \/ CopyShp
    \/ JoinRow
    \/ WriteShp
    \/ Summary

SpecJoin == Init /\ [][NextJoin]_vars

NextCombine ==
    \/ FolderMissing
    \/ ListCsvFiles
    \/ SkipNoYear
    \/ ProcessFails
    \/ ProcessFile
    \/ NothingToCombine
    \/ Combine

SpecCombine == Init /\ [][NextCombine]_vars

----------------------------------------------------------------------------
(* Properties *)

\* create_raster_from_layer has been called on gdf_year, and out_shape is
\* what that call computed
AfterCall == attempted # <<>> /\ ~(pc = "column" /\ colIdx = 1)

Resolution == args[1].resolution

\* the extent of a non-empty frame on the two axes
ExtentX(frame) == LET b == total_bounds(frame.rows) IN b.maxx - b.minx
ExtentY(frame) == LET b == total_bounds(frame.rows) IN b.maxy - b.miny

\* the frame a call was made with, from the path it was made for
FrameOf(path) ==
    IF args[1].no_year_split THEN gdf[1] ELSE FilterYear(gdf[1], path[1][2])

HasError(path, exception) == \E j \in DOMAIN errors : errors[j] = <<path, exception>>

\* C1: for a strictly positive resolution, the grid computed for a frame is
\* floor((maxX - minX) / resolution) wide and floor((maxY - minY) / resolution)
\* high, each axis from its own extent.
C1_GridIsFloorOfExtent ==
    (AfterCall /\ Resolution > 0 /\ gdf_year[1].rows # <<>>) =>
        out_shape = <<ExtentY(gdf_year[1]) \div Resolution,
                      ExtentX(gdf_year[1]) \div Resolution>>

\* a call with a positive resolution that does not divide the extent, and
\* whose two axes differ
C1_Witness ==
    /\ AfterCall
    /\ Resolution = 2
    /\ gdf_year[1].rows # <<>>
    /\ ExtentX(gdf_year[1]) = 3
    /\ ExtentY(gdf_year[1]) = 1
    /\ out_shape = <<0, 1>>

\* C2: for a non-empty frame and a strictly positive resolution, the width
\* and the height of the grid are both at least 1.
C2_GridAtLeastOneCell ==
    (AfterCall /\ Resolution > 0 /\ gdf_year[1].rows # <<>>) =>
        (out_shape[1] >= 1 /\ out_shape[2] >= 1)

\* C3: when a positive resolution is larger than the extent of a non-empty
\* frame on an axis, the call for that path ends in the except branch with
\* the ValueError of the empty grid, and no raster is written to the path.
C3_DegenerateExtentFails ==
    \A i \in DOMAIN attempted :
        LET path == attempted[i]
            frame == FrameOf(path)
            b == total_bounds(frame.rows)
        IN (/\ i < Len(attempted) \/ AfterCall
            /\ Resolution > 0
            /\ frame.rows # <<>>
            /\ b.maxx - b.minx < Resolution \/ b.maxy - b.miny < Resolution)
           => (path \notin files /\ HasError(path, "ValueError"))

\* such a call has been made and the run is over
C3_Witness ==
    /\ pc = "done"
    /\ \E i \in DOMAIN attempted :
        /\ Resolution > 0
        /\ FrameOf(attempted[i]).rows # <<>>
        /\ ExtentY(FrameOf(attempted[i])) < Resolution
        /\ ExtentX(FrameOf(attempted[i])) >= Resolution
        /\ HasError(attempted[i], "ValueError")

\* the years are known: the loop over the years has begun
YearsKnown == gdf # None /\ ~args[1].no_year_split /\ yearIdx >= 1

\* the years whose subset holds row i of the collection
GroupsOf(i) ==
    { k \in DOMAIN years :
        gdf[1].rows[i] \in Range(FilterYear(gdf[1], years[k]).rows) }

\* C4: the per-year subsets partition the collection: every feature is in
\* the subset of exactly one year, also a feature whose Year is missing.
C4_PartitionCompleteAndDisjoint ==
    YearsKnown => \A i \in DOMAIN gdf[1].rows : Cardinality(GroupsOf(i)) = 1

\* the pairs of a run in the order of the loops
AllPairs ==
    IF args[1].no_year_split
    THEN [k \in 1..Len(columns) |-> <<OutputDir, columns[k]>>]
    ELSE [k \in 1..(Len(years) * Len(columns)) |->
            <<YearDir(years[((k - 1) \div Len(columns)) + 1]),
              columns[((k - 1) % Len(columns)) + 1]>>]

IsPrefix(s, t) == Len(s) <= Len(t) /\ s = SubSeq(t, 1, Len(s))

\* the run got to its loop over the pairs
LoopEntered == gdf # None /\ pc \in {"year", "column", "write", "done"}
                 /\ uncaught \notin {"KeyError", "IndexError"}

\* C5: a failure inside create_raster_from_layer ends only that call: the
\* calls made are always the first pairs of the batch, each once, the run
\* goes on after a failed call, and a run that returns has made the call for
\* every pair, whichever of them failed.
C5_FailureAbortsOnlyThePair ==
    LoopEntered =>
        /\ IsPrefix(attempted, AllPairs)
        /\ \A j \in DOMAIN errors : \E i \in DOMAIN attempted : errors[j][1] = attempted[i]
        /\ (pc = "done" /\ uncaught = "none") => attempted = AllPairs

\* a run that returned after its first call failed and a later one wrote its raster
C5_Witness ==
    /\ LoopEntered
    /\ pc = "done"
    /\ uncaught = "none"
    /\ Len(attempted) >= 2
    /\ HasError(attempted[1], "ValueError")
    /\ attempted[Len(attempted)] \in files

\* the collection was read and has no Year column, in a run that splits by year
YearAbsent ==
    /\ gdf # None
    /\ ~args[1].no_year_split
    /\ "Year" \notin Range(gdf[1].columns)
    /\ pc # "years"

\* C6: when the collection of a run that splits by year has no Year column,
\* the run is ended by the KeyError of the lookup and writes no raster.
C6_MissingYearColumnFails ==
    YearAbsent =>
        /\ pc = "done"
        /\ uncaught = "KeyError"
        /\ attempted = <<>>
        /\ files = {}

C6_Witness == YearAbsent /\ gdf[1].rows # <<>> /\ exitCode = <<1>>

\* the input file was there and get_gpkg_layers returned None
ReadFailed == pc = "done" /\ input_exists = <<TRUE>> /\ OutputDir \in dirs /\ gdf = None

\* C7: an error reading the source file ends the run with a non-zero exit
\* status, and no pair is processed.
C7_ReadErrorIsFatal ==
    ReadFailed => (exitCode # <<0>> /\ attempted = <<>>)

\* the command line was malformed
UsageFailed == pc = "done" /\ input_exists = None

\* C8 as stated, of the runs whose command line is well-formed: status 1
\* when the input path does not exist, 0 in every other case.
C8_ExitOneOnlyForMissingFile ==
    (pc = "done" /\ ~UsageFailed) =>
        exitCode = IF input_exists = <<FALSE>> THEN <<1>> ELSE <<0>>

\* the run was ended by an exception nothing catches: a directory that could
\* not be made, or, splitting by year, a collection without a Year column or
\* without features
RunRaised ==
    \/ uncaught \in {"FileNotFoundError", "PermissionError"}
    \/ /\ gdf # None
       /\ ~args[1].no_year_split
       /\ "Year" \notin Range(gdf[1].columns) \/ gdf[1].rows = <<>>

\* C8, amended: status 2 for a malformed command line, 1 when the input path
\* does not exist or an exception ends the run, 0 otherwise (also when the
\* file cannot be read and when pairs fail).
C8_ExitStatus ==
    pc = "done" =>
        exitCode = IF UsageFailed THEN <<2>>
                   ELSE IF input_exists = <<FALSE>> \/ RunRaised THEN <<1>>
                   ELSE <<0>>

\* a run over an existing file that ended with status 1
C8_Witness ==
    /\ pc = "done"
    /\ input_exists = <<TRUE>>
    /\ gdf # None
    /\ "Year" \notin Range(gdf[1].columns)
    /\ exitCode = <<1>>

\* C9: no raster is written for a column of the exclude list.
C9_ExcludedNeverRasterized ==
    args # None => \A path \in files : path[2] \notin args[1].exclude

\* the features of the frame that burn a cell
Covering(frame, cell, t) ==
    { i \in DOMAIN frame.rows : Covers(frame.rows[i].geometry, cell, t) }

\* C10: a cell of the raster that more than one feature covers holds the
\* value of the last of them in the order of the frame.
C10_LastWriteWins ==
    pc = "write" =>
        \A cell \in DOMAIN raster[1].grid :
            LET cov == Covering(gdf_year[1], cell, raster[1].transform)
            IN Cardinality(cov) > 1 =>
                raster[1].grid[cell] =
                    fillna(gdf_year[1].rows[Max(cov)][columns[colIdx]])[1]

\* a cell covered by two features of different values
C10_Witness ==
    /\ pc = "write"
    /\ \E cell \in DOMAIN raster[1].grid :
        LET cov == Covering(gdf_year[1], cell, raster[1].transform)
        IN /\ Cardinality(cov) = 2
           /\ raster[1].grid[cell] = 9
           /\ fillna(gdf_year[1].rows[Min(cov)][columns[colIdx]])[1] = 5

\* C11: a cell that no feature covers holds the fill value 0, a cell last
\* burnt by a feature whose attribute is missing holds 0, and a cell that
\* holds a value other than 0 is covered by a feature whose attribute is
\* present and is that value.
C11_NonZeroOnlyWhereBurnt ==
    pc = "write" =>
        \A cell \in DOMAIN raster[1].grid :
            LET cov == Covering(gdf_year[1], cell, raster[1].transform)
                held == raster[1].grid[cell]
            IN /\ cov = {} => held = 0
               /\ (cov # {} /\ IsNaN(gdf_year[1].rows[Max(cov)][columns[colIdx]]))
                    => held = 0
               /\ held # 0 =>
                    \E i \in cov : gdf_year[1].rows[i][columns[colIdx]] = <<held>>

\* a raster with a cell no feature covers, a cell burnt by a feature without
\* the attribute, and a cell burnt with a value
C11_Witness ==
    /\ pc = "write"
    /\ \E c1, c2, c3 \in DOMAIN raster[1].grid :
        /\ Covering(gdf_year[1], c1, raster[1].transform) = {}
        /\ raster[1].grid[c1] = 0
        /\ \E i \in Covering(gdf_year[1], c2, raster[1].transform) :
                IsNaN(gdf_year[1].rows[i][columns[colIdx]])
        /\ raster[1].grid[c2] = 0
        /\ raster[1].grid[c3] = 7

\* the year and the place of the column of a call of a run that splits by year
YearOfCall(path) == path[1][2]
ColumnPlace(path) == CHOOSE k \in DOMAIN gdf[1].columns : gdf[1].columns[k] = path[2]

\* C12: in a run that splits by year the years are in ascending order, and
\* the calls are made in that order: no call is for an earlier year than a
\* call before it, and the calls of one year follow the order of the columns
\* of the collection.
C12_PairsInAscendingYearOrder ==
    YearsKnown =>
        /\ \A i, j \in DOMAIN years : i < j => ~PyLt(years[j], years[i])
        /\ \A a, b \in DOMAIN attempted :
            a < b =>
                /\ ~PyLt(YearOfCall(attempted[b]), YearOfCall(attempted[a]))
                /\ YearOfCall(attempted[a]) = YearOfCall(attempted[b])
                     => ColumnPlace(attempted[a]) < ColumnPlace(attempted[b])

\* the values of a column in the features of a year
ValuesOfYear(year, column_name) ==
    { fillna(gdf[1].rows[i][column_name])[1] :
        i \in { k \in DOMAIN gdf[1].rows : PyEq(gdf[1].rows[k].Year, year) } }

\* the features A (value 5, year 2001) and B (value 9, year 2002), each one
\* cell large at resolution 1
ScenarioAB ==
    [columns |-> ColumnsWithYear,
     rows |-> << [geometry |-> UnitBox, Year |-> <<2001>>, Num_Flood |-> <<5>>,
                  Num_Forest_Fire |-> NaN],
                 [geometry |-> UnitBox, Year |-> <<2002>>, Num_Flood |-> <<9>>,
                  Num_Forest_Fire |-> <<7>>] >>]

\* the run split by year and returned, its resolution was positive and no
\* write was refused
ReturnedByYear ==
    /\ YearsKnown
    /\ pc = "done"
    /\ uncaught = "none"
    /\ Resolution > 0
    /\ \A j \in DOMAIN errors : errors[j][2] # "RasterioIOError"

\* C13: a run that splits by year writes one raster for each pair of a year
\* and a column, and a raster holds only the fill value and values of the
\* features of its year; for the features A and B, at resolution 1, the
\* raster of a year is one cell that holds the value of the feature of the year.
C13_OneRasterPerYearAndAttribute ==
    /\ (YearsKnown /\ pc = "write") =>
        /\ \A cell \in DOMAIN raster[1].grid :
            raster[1].grid[cell] \in
                {0} \cup ValuesOfYear(years[yearIdx], columns[colIdx])
        /\ (gdf[1] = ScenarioAB /\ Resolution = 1 /\ columns[colIdx] = "Num_Flood") =>
            /\ DOMAIN raster[1].grid = {<<1, 1>>}
            /\ <<raster[1].grid[<<1, 1>>]>> = gdf[1].rows[yearIdx].Num_Flood
    /\ ReturnedByYear => files = Range(AllPairs)

\* C14: a destination directory that is missing, the parent of the output
\* directory included, is no error, and every raster is written into a
\* directory that the run has made.
C14_MissingDirectoryIsNoError ==
    /\ uncaught # "FileNotFoundError"
    /\ pc = "write" => CurrentDir \in dirs

\* ceil(n / d) of a non-negative n and a positive d
Ceil(n, d) == (n + d - 1) \div d

\* C16: for a positive resolution and a frame whose extent is positive on
\* both axes, the width and the height of the grid are positive and are
\* ceil((max - min) / resolution) of their axis.
C16_GridIsCeilOfExtent ==
    (/\ AfterCall /\ Resolution > 0 /\ gdf_year[1].rows # <<>>
     /\ ExtentX(gdf_year[1]) > 0 /\ ExtentY(gdf_year[1]) > 0) =>
        /\ out_shape = <<Ceil(ExtentY(gdf_year[1]), Resolution),
                         Ceil(ExtentX(gdf_year[1]), Resolution)>>
        /\ out_shape[1] >= 1
        /\ out_shape[2] >= 1

\* C16, as amended: the width and the height are the largest numbers of
\* whole resolution steps that fit in the extent of their axis, so they are
\* positive exactly when the extent is at least one step, and 0 otherwise.
C16_GridIsWholeStepsOfExtent ==
    (AfterCall /\ Resolution > 0 /\ gdf_year[1].rows # <<>>) =>
        LET b == total_bounds(gdf_year[1].rows)
            height == out_shape[1]
            width == out_shape[2]
        IN /\ height \in Nat /\ width \in Nat
           /\ height * Resolution <= b.maxy - b.miny
           /\ b.maxy - b.miny < (height + 1) * Resolution
           /\ width * Resolution <= b.maxx - b.minx
           /\ b.maxx - b.minx < (width + 1) * Resolution
           /\ (height >= 1) = (b.maxy - b.miny >= Resolution)
           /\ (width >= 1) = (b.maxx - b.minx >= Resolution)

\* a grid whose width is below the ceiling and whose height is 0, refused
\* by rasterize
C16_Witness ==
    /\ AfterCall
    /\ Resolution > 0
    /\ gdf_year[1].rows # <<>>
    /\ out_shape[2] >= 1
    /\ out_shape[2] < Ceil(ExtentX(gdf_year[1]), Resolution)
    /\ out_shape[1] = 0
    /\ HasError(attempted[Len(attempted)], "ValueError")

\* C17: no call is made again: the pairs of the calls of a run are all
\* different, and each call has one outcome, a raster written or an error,
\* never both.
C17_NoPairTwice ==
    /\ \A i, j \in DOMAIN attempted : i # j => attempted[i] # attempted[j]
    /\ \A j \in DOMAIN errors : errors[j][1] \notin files
    /\ Len(errors) + Cardinality(files) + (IF pc = "write" THEN 1 ELSE 0)
         = Len(attempted)

\* a run that returned after a call that failed and a call that wrote
C17_Witness ==
    /\ pc = "done"
    /\ uncaught = "none"
    /\ errors # <<>>
    /\ files # {}
    /\ Len(attempted) >= 3

\* C18: a grid is held only between its creation and its write, for the
\* pair of the last call, whose raster is not written yet: when the next
\* call can be made no grid is held.
C18_OneRasterInFlight ==
    raster # None =>
        /\ pc = "write"
        /\ attempted # <<>>
        /\ attempted[Len(attempted)] = CurrentPath
        /\ CurrentPath \notin files

\* a raster was written and the next call is about to be made
C18_Witness ==
    /\ pc = "column"
    /\ colIdx <= Len(columns)
    /\ files # {}
    /\ raster = None

\* C19: the loaded collection is not changed by a call, so the grid of a
\* call is the one its frame gives whatever calls were made before.
C19_SourceIsReadOnly ==
    /\ [][gdf # None => gdf' = gdf]_vars
    /\ [](pc = "write" =>
            raster[1].grid =
                RasterOf(FrameOf(CurrentPath), columns[colIdx], Resolution).grid)

\* a call was made for a column with a missing value, on the loaded
\* collection itself, and the next call is about to be made
C19_Witness ==
    /\ pc = "column"
    /\ args[1].no_year_split
    /\ colIdx > 1
    /\ colIdx <= Len(columns)
    /\ \E i \in DOMAIN gdf[1].rows : IsNaN(gdf[1].rows[i][columns[colIdx - 1]])
    /\ attempted[Len(attempted)] \in files

\* C15: a run of the downloader requests no file that is already there, and
\* after a run that came to the end of its loops with every request answered
\* 200, every file holds the whole body of its response, whatever runs came
\* before it and wherever they were stopped.
C15_ResumableSkipIfExists ==
    /\ \A i \in DOMAIN visited : visited[i].existed => visited[i].status = None
    /\ (/\ dl_pc = "completed"
        /\ \A i \in DOMAIN visited : visited[i].status \in {None, <<200>>})
         => \A f \in Range(Tiles) : disk[f] = Complete

\* the calls that create a coverage store
StoreCalls == { i \in DOMAIN calls : calls[i].call = "create_coveragestore" }

\* the year folders and files the naming schema is stated for, with the name
\* of the upload
NamedUploads ==
    { <<Year_2001, Num_Forest_Fire_tif, <<"f", "i", "r", "e", "_", "2", "0", "0", "1">>>>,
      <<Year_2001, Num_Flood_tif, <<"f", "l", "o", "o", "d", "_", "2", "0", "0", "1">>>>,
      <<Year_2001, Num_Land_Slide_tif, <<"l", "a", "n", "d", "s", "l", "i", "d", "e", "_", "2", "0", "0", "1">>>>,
      <<Year_2002, Num_Forest_Fire_tif, <<"f", "i", "r", "e", "_", "2", "0", "0", "2">>>>,
      <<Year_2002, Num_Flood_tif, <<"f", "l", "o", "o", "d", "_", "2", "0", "0", "2">>>>,
      <<Year_2002, Num_Land_Slide_tif, <<"l", "a", "n", "d", "s", "l", "i", "d", "e", "_", "2", "0", "0", "2">>>> }

\* C20: an upload is named {disaster_type}_{year}: Num_Forest_Fire.tif under
\* Year_Y is uploaded as fire_Y, Num_Flood.tif as flood_Y and
\* Num_Land_Slide.tif as landslide_Y, each of them once the loop has come to
\* it; a file of unknown disaster type (and a file that is no raster) is
\* never uploaded; and the records kept of the uploads carry that name.
C20_UploadNamedByTypeAndYear ==
    /\ \A i \in StoreCalls : \A n \in NamedUploads :
        calls[i].path = <<n[1], n[2]>> => calls[i].name = n[3]
    /\ \A i \in DOMAIN calls : calls[i].path[2] \notin {Num_Earthquake_tif, notes_txt}
    /\ up_pc \in {"file", "layer"} =>
        \A k \in 1..(fileIdx - 1) : \A n \in NamedUploads :
            <<listing[folderIdx].name, file_list[k]>> = <<n[1], n[2]>> =>
                \E i \in StoreCalls :
                    calls[i].path = <<n[1], n[2]>> /\ calls[i].name = n[3]
    /\ \A r \in Range(successful_uploads) \cup Range(failed_uploads) :
        /\ r.disaster_type \in {Str_fire, Str_flood, Str_landslide}
        /\ r.store_name = r.disaster_type \o <<"_">> \o r.year

\* Num_Land_Slide.tif of Year_2002 was uploaded as landslide_2002, and in
\* the next folder the loop has passed over a file of unknown disaster type
C20_Witness ==
    /\ up_pc = "file"
    /\ fileIdx = 2
    /\ file_list[1] = Num_Earthquake_tif
    /\ Len(calls) = 2
    /\ calls[1].path = <<Year_2002, Num_Land_Slide_tif>>
    /\ calls[1].name = <<"l", "a", "n", "d", "s", "l", "i", "d", "e", "_", "2", "0", "0", "2">>
    /\ Len(successful_uploads) = 1

\* C21: when convert_gpkg_to_rasters_by_year returns, the number of rasters
\* it reports as created, total_rasters, is the number of raster files the
\* run has written, also when calls have failed (here: when the only
\* failures are writes that were refused).
C21_ReportedCountIsWrittenCount ==
    (/\ YearsKnown /\ pc = "done" /\ uncaught = "none"
     /\ \A j \in DOMAIN errors : errors[j][2] = "RasterioIOError") =>
        total_rasters = Cardinality(files)

\* the year of each entry of the rasters folder, or None
YearOfFolder == [n \in { e.name : e \in RootEntries } |-> get_year_from_folder(n)]

\* the records main has kept of a file of a year folder
RecordsOf(folder_name, filename) ==
    LET Of(recs) ==
            { j \in DOMAIN recs :
                recs[j].file = filename /\ <<recs[j].year>> = YearOfFolder[folder_name] }
    IN Cardinality(Of(successful_uploads)) + Cardinality(Of(failed_uploads))

\* the raster files of a known disaster type
KnownRasters ==
    { f \in FileNames :
        IsRasterName(f) /\ get_disaster_type_from_filename(f) # Str_unknown }

\* C22: the layer of a file is created only right after the coverage store
\* of the same file was created without raising; a file handed to
\* upload_raster_file is recorded once, in successful_uploads or in
\* failed_uploads, when its upload is over; it is recorded as successful
\* only if the layer creation answered 201; and after a failure the loops go
\* on: every raster file of known type the loop has passed is recorded, and
\* main ends only when every entry of the rasters folder has been passed.
C22_UploadRecordedOnceAndRunGoesOn ==
    /\ \A i \in DOMAIN calls :
        calls[i].call = "create_layer" =>
            /\ i > 1
            /\ calls[i - 1].call = "create_coveragestore"
            /\ calls[i - 1].path = calls[i].path
            /\ ~calls[i - 1].raised
    /\ \A i \in StoreCalls :
        RecordsOf(calls[i].path[1], calls[i].path[2])
            = IF up_pc = "layer" /\ i = Len(calls) THEN 0 ELSE 1
    /\ \A j \in DOMAIN successful_uploads :
        \E i \in DOMAIN calls :
            /\ calls[i].call = "create_layer"
            /\ calls[i].response = <<201>>
            /\ calls[i].path[2] = successful_uploads[j].file
            /\ YearOfFolder[calls[i].path[1]] = <<successful_uploads[j].year>>
    /\ \A j \in DOMAIN failed_uploads : \A k \in DOMAIN successful_uploads :
        failed_uploads[j].file = successful_uploads[k].file
            => failed_uploads[j].year # successful_uploads[k].year
    /\ up_pc \in {"file", "layer"} =>
        \A k \in 1..(fileIdx - 1) :
            file_list[k] \in KnownRasters =>
                RecordsOf(listing[folderIdx].name, file_list[k]) = 1
    /\ (up_pc = "folder" /\ fileIdx > 0) => fileIdx > Len(file_list)
    /\ up_pc = "done" => (folderIdx = 0 \/ folderIdx > Len(listing))

\* main has ended after an upload that failed, of a file of the first year
\* folder, and an upload that succeeded, of a file of the second
C22_Witness ==
    /\ up_pc = "done"
    /\ Len(failed_uploads) = 1
    /\ Len(successful_uploads) = 1
    /\ \E i, j \in DOMAIN calls :
        /\ i < j
        /\ calls[i].path[2] = failed_uploads[1].file
        /\ calls[i].response = <<500>>
        /\ calls[j].path[2] = successful_uploads[1].file
        /\ calls[j].response = <<201>>

\* the tiles of the bounding box: four latitudes, six longitudes, two files
BoundingBoxTiles ==
    /\ lat_range = <<57, 54, 51, 48>>
    /\ lon_range = <<0 - 15, 0 - 12, 0 - 9, 0 - 6, 0 - 3, 0>>
    /\ Len(AllTiles) = 48
    /\ \A i, j \in DOMAIN AllTiles : AllTiles[i] = AllTiles[j] => i = j
    /\ \A i \in DOMAIN lat_range : \A j \in DOMAIN lon_range : \A n \in DOMAIN Suffixes :
        \E k \in DOMAIN AllTiles : AllTiles[k] = fname(lat_range[i], lon_range[j], Suffixes[n])

\* C25: a step of the downloader creates a file only at the path of the tile
\* it has just requested, and only when the answer was 200; a tile that was
\* answered with another status has no file, and the loop goes on to the next
\* tile; the tiles of a run are visited in the order of the loops, none of
\* them twice, and all of them when the loops have come to their end. The
\* loops go through the 48 tiles of the bounding box.
C25_FileOnlyOn200AndEveryTileVisited ==
    /\ BoundingBoxTiles
    /\ [][\A f \in Range(Tiles) :
            (disk[f] = None /\ disk'[f] # None) =>
                /\ visited' = Append(visited, [fname |-> f, existed |-> FALSE,
                                               status |-> <<200>>])
         ]_vars
    /\ [](/\ \A i \in DOMAIN visited :
                /\ visited[i].fname = Tiles[i]
                /\ (visited[i].status \notin {None, <<200>>}) =>
                        /\ disk[visited[i].fname] = None
                        /\ (dl_pc \in {"tile", "writing"} => tile > i)
          /\ dl_pc = "tile" => tile = Len(visited) + 1
          /\ dl_pc = "writing" => tile = Len(visited)
          /\ dl_pc = "completed" => Len(visited) = Len(Tiles))

\* a run has come to the end of its loops after a tile that was answered 404
\* and a later one that was answered 200
C25_Witness ==
    /\ dl_pc = "completed"
    /\ \E i, j \in DOMAIN visited :
        /\ i < j
        /\ visited[i].status = <<404>>
        /\ visited[j].status = <<200>>
        /\ disk[visited[i].fname] = None
        /\ disk[visited[j].fname] = Complete

\* the rows of the CSV whose id is the key of record i of the shapefile
MatchingRows(i) ==
    { j \in DOMAIN df.rows : PyEq(df.rows[j][csv_id_by], shp.rows[i][shp_id_by]) }

\* the prompts the mismatches call for, the one of the CSV first
PromptsDue ==
    (IF Len(not_matches) > 0 THEN <<"CSV">> ELSE <<>>)
        \o (IF Len(not_matches_shp) > 0 THEN <<"Shp">> ELSE <<>>)

\* C23: a shapefile is written only after every prompt that the mismatches
\* called for was shown, the one of the CSV first, and answered 'y'; the
\* file written has the records of the input shapefile, each with the cells
\* it had; a record whose key is the id of no CSV row has NaN in every CSV
\* column, and a record whose key is the id of CSV rows has, in every CSV
\* column, the cell of the last of these rows.
C23_WrittenAfterYesWithLastMatchingRow ==
    output_file # None =>
        /\ [i \in DOMAIN prompts |-> prompts[i].side] = PromptsDue
        /\ \A i \in DOMAIN prompts : prompts[i].answer = "y"
        /\ Len(output_file.rows) = Len(shp.rows)
        /\ \A i \in DOMAIN shp.rows :
            /\ \A c \in Range(shp.columns) : output_file.rows[i][c] = shp.rows[i][c]
            /\ \A c \in Range(csv_columns) :
                output_file.rows[i][c] =
                    IF MatchingRows(i) = {} THEN NaN
                    ELSE df.rows[CHOOSE j \in MatchingRows(i) :
                                    \A k \in MatchingRows(i) : k <= j][c]

\* the years of the files that gave a table
AddedYears ==
    { processed[i].year[1] : i \in { j \in DOMAIN processed : processed[j].outcome = "added" } }

\* the last of the files that gave a table of a year
LastAdded(year) ==
    CHOOSE i \in DOMAIN processed :
        /\ processed[i].outcome = "added" /\ processed[i].year = <<year>>
        /\ \A j \in DOMAIN processed :
            (processed[j].outcome = "added" /\ processed[j].year = <<year>>) => j <= i

\* the number four digits write
YearNumber(digits) ==
    LET Value(d) == (CHOOSE k \in 1..10 : CodePointOrder[k + 1] = d) - 1
    IN 1000 * Value(digits[1]) + 100 * Value(digits[2]) + 10 * Value(digits[3])
        + Value(digits[4])

\* a name with four digits in a row
HasFourDigits(filename) ==
    \E i \in 1..(Len(filename) - 3) : \A k \in i..(i + 3) : filename[k] \in Digits

\* C24: the loop passes every file of the folder: a file without four digits
\* in its name and a file that cannot be read are skipped, and the run goes
\* on to the end.  The table written has the column Provinsi and then one
\* column 'Beras (ton) Y' for each year Y of the files that were read, in
\* ascending order of the years; every province of the file that was
\* processed last for a year has a row, with the value of that file in the
\* column of the year (the join is an outer one), and no value of the column
\* comes from another file.
C24_YearsAsColumnsProvincesAsRows ==
    /\ cb_pc = "files" => Len(processed) = cb_idx - 1
    /\ \A i \in DOMAIN processed :
        /\ processed[i].name = csv_files[i].name
        /\ ~HasFourDigits(csv_files[i].name) => processed[i].outcome = "skipped"
        /\ (HasFourDigits(csv_files[i].name) /\ csv_files[i].content = None)
                => processed[i].outcome = "error"
        /\ (HasFourDigits(csv_files[i].name) /\ csv_files[i].content # None)
                => processed[i].outcome = "added"
    /\ (cb_pc = "returned" /\ csv_files # <<>>) =>
        /\ Len(processed) = Len(csv_files)
        /\ AddedYears # {} => combined_df # None
    /\ combined_df # None =>
        LET cols == combined_df.columns
            YearOfColumn(k) == SubSeq(cols[k], 2, 5)
        IN /\ cols[1] = Str_Provinsi
           /\ Len(cols) = 1 + Cardinality(AddedYears)
           /\ \A k \in 2..Len(cols) :
                /\ YearOfColumn(k) \in AddedYears
                /\ cols[k] = <<"Beras (ton) ">> \o YearOfColumn(k)
           /\ \A k \in 2..(Len(cols) - 1) :
                YearNumber(YearOfColumn(k)) < YearNumber(YearOfColumn(k + 1))
           /\ \A k \in 2..Len(cols) :
                LET file == csv_files[LastAdded(YearOfColumn(k))].content
                    InFile(provinsi, beras) ==
                        \E i \in DOMAIN file.rows :
                            /\ file.rows[i][Str_Provinsi] = provinsi
                            /\ file.rows[i][file.columns[2]] = beras
                IN /\ \A i \in DOMAIN CleanRows(file) :
                        \E j \in DOMAIN combined_df.rows :
                            /\ combined_df.rows[j][Str_Provinsi]
                                    = CleanRows(file)[i][Str_Provinsi]
                            /\ combined_df.rows[j][cols[k]]
                                    = CleanRows(file)[i][file.columns[2]]
                   /\ \A j \in DOMAIN combined_df.rows :
                        \/ combined_df.rows[j][cols[k]] = NaN
                        \/ InFile(combined_df.rows[j][Str_Provinsi],
                                  combined_df.rows[j][cols[k]])

\* three files were listed and two years were combined: one file did not
\* contribute, and a province of one year only has a row, without a value of
\* the other year
C24_Witness ==
    /\ cb_pc = "returned"
    /\ combined_df # None
    /\ Len(csv_files) = 3
    /\ Len(combined_df.columns) = 3
    /\ \E i \in DOMAIN processed : processed[i].outcome # "added"
    /\ \E j \in DOMAIN combined_df.rows :
        /\ combined_df.rows[j][combined_df.columns[2]] = NaN
        /\ combined_df.rows[j][combined_df.columns[3]] # NaN

====
